---- MODULE Spec2Model ----
(***************************************************************************)
(* A model of the calendar edge proxy (worker.js): the Fernet token        *)
(* decoder, the request handler of the fixed-secret deployment, the        *)
(* response sanitizer and the JSON event post-processing.                  *)
(*                                                                         *)
(* JavaScript strings are sequences of one-character strings; byte arrays  *)
(* (Uint8Array) are sequences of integers 0..255.  JavaScript indices are  *)
(* 0-based and TLA+ sequences 1-based: s.slice(a, b) is SubSeq(s, a+1, b). *)
(***************************************************************************)
EXTENDS Integers, Sequences, FiniteSets, TLC

VARIABLES
  \* --- one execution of decryptFernetToken --------------------------------
  dOrigin,     \* how the token under decoding was produced (ghost)
  dToken,      \* the token argument (base64url text)
  dSecret,     \* the secretKey argument (base64url text)
  dPc,         \* position inside decryptFernetToken
  dSteps,      \* the steps executed so far, in order
  dResult,     \* what the call returned or threw
  \* --- one execution of the fetch handler ---------------------------------
  env,         \* the worker's secrets: CALENDAR_URL, ENCRYPTION_KEY, USER_EMAILS
  req,         \* the inbound request: pathname, query, headers
  pc,          \* position inside the handler
  branch,      \* which branch of the handler took the request
  urlsToUse,     \* the sources of the request, before they are decrypted
  decryptedUrls, \* the handler's list of resolved calendar sources
  upstreamReq, \* the request sent to the upstream host, if any
  upstreamResp, \* the response the upstream host gave, if any
  resp,        \* the response returned to the client
  \* --- one execution of processCalendarEventsJson -------------------------
  jsonIn,      \* the parsed upstream JSON body
  jsonOut,     \* the processed data
  jsonPc,      \* position
  \* --- one execution of mergeConsecutiveEvents ----------------------------
  mHeap,       \* the event objects that exist, an object reference being its index
  mEvents,     \* the events argument: references
  mUserEmails, \* the userEmails argument
  mFiltered,   \* filteredEvents: references
  mSanitized,  \* sanitizedEvents: references
  mMerged,     \* mergedEvents: the objects returned
  mPc          \* position

vars == <<dOrigin, dToken, dSecret, dPc, dSteps, dResult,
          env, req, pc, branch, urlsToUse, decryptedUrls, upstreamReq, upstreamResp, resp,
          jsonIn, jsonOut, jsonPc,
          mHeap, mEvents, mUserEmails, mFiltered, mSanitized, mMerged, mPc>>

decodeVars == <<dOrigin, dToken, dSecret, dPc, dSteps, dResult>>
handlerVars == <<env, req, pc, branch, urlsToUse, decryptedUrls, upstreamReq, upstreamResp, resp>>
jsonVars == <<jsonIn, jsonOut, jsonPc>>
mergeVars == <<mHeap, mEvents, mUserEmails, mFiltered, mSanitized, mMerged, mPc>>

-----------------------------------------------------------------------------
(* Strings *)

Range(s) == {s[i] : i \in 1..Len(s)}

\* s.startsWith(p)
StartsWith(s, p) ==
  /\ Len(p) <= Len(s)
  /\ SubSeq(s, 1, Len(p)) = p

\* s.endsWith(p)
EndsWith(s, p) ==
  /\ Len(p) <= Len(s)
  /\ SubSeq(s, Len(s) - Len(p) + 1, Len(s)) = p

\* s occurs in t starting at (1-based) position i
OccursAt(t, s, i) ==
  /\ i >= 1
  /\ i + Len(s) - 1 <= Len(t)
  /\ SubSeq(t, i, i + Len(s) - 1) = s

\* t.includes(s)
Includes(t, s) == \E i \in 1..(Len(t) + 1) : OccursAt(t, s, i)

UpperLetters == <<"A","B","C","D","E","F","G","H","I","J","K","L","M","N","O","P","Q","R","S","T","U","V","W","X","Y","Z">>
LowerLetters == <<"a","b","c","d","e","f","g","h","i","j","k","l","m","n","o","p","q","r","s","t","u","v","w","x","y","z">>
Digits == <<"0","1","2","3","4","5","6","7","8","9">>

IsLetter(c) == c \in Range(UpperLetters) \cup Range(LowerLetters)
IsDigit(c) == c \in Range(Digits)

\* one character of s.toLowerCase()
LowerChar(c) ==
  IF c \in Range(UpperLetters)
    THEN LowerLetters[CHOOSE i \in 1..26 : UpperLetters[i] = c]
    ELSE c

\* s.toLowerCase()
ToLower(s) == [i \in 1..Len(s) |-> LowerChar(s[i])]

\* the white space of \s and of String.prototype.trim among the characters used
IsSpace(c) == c \in {" ", "\t", "\n", "\r"}

RECURSIVE TrimLeft(_)
TrimLeft(s) ==
  IF s # << >> /\ IsSpace(Head(s)) THEN TrimLeft(Tail(s)) ELSE s

RECURSIVE TrimRight(_)
TrimRight(s) ==
  IF s # << >> /\ IsSpace(s[Len(s)]) THEN TrimRight(SubSeq(s, 1, Len(s) - 1)) ELSE s

\* s.trim()
Trim(s) == TrimRight(TrimLeft(s))

\* s.split(sep) for a one-character separator: the pieces between the
\* occurrences of sep
Split(s, sep) ==
  LET at == {i \in 1..Len(s) : s[i] = sep}
      \* the position of the k-th separator; 0 and Len(s) + 1 stand at the ends
      cut(k) == IF k = 0 THEN 0
                ELSE IF k > Cardinality(at) THEN Len(s) + 1
                ELSE CHOOSE i \in at : Cardinality({j \in at : j < i}) = k - 1
  IN  [k \in 1..(Cardinality(at) + 1) |-> SubSeq(s, cut(k - 1) + 1, cut(k) - 1)]

\* parts.join(sep)
RECURSIVE Join(_, _)
Join(parts, sep) ==
  IF parts = << >> THEN << >>
  ELSE IF Len(parts) = 1 THEN parts[1]
  ELSE parts[1] \o sep \o Join(Tail(parts), sep)

\* parts.filter(s => s)
NonEmpty(s) == s # << >>
FilterNonEmpty(parts) == SelectSeq(parts, NonEmpty)

-----------------------------------------------------------------------------
(* Token Codec: base64UrlDecode, decryptFernetToken, decryptFernetUrl *)

\* the printable ASCII characters, code 32 at index 1
Ascii == <<" ","!","\"","#","$","%","&","'","(",")","*","+",",","-",".","/","0","1","2","3","4","5","6","7","8","9",":",";","<","=",">","?","@","A","B","C","D","E","F","G","H","I","J","K","L","M","N","O","P","Q","R","S","T","U","V","W","X","Y","Z","[","\\","]","^","_","<backtick>","a","b","c","d","e","f","g","h","i","j","k","l","m","n","o","p","q","r","s","t","u","v","w","x","y","z","{","|","}","~">>

AsciiCode == [c \in Range(Ascii) |-> 31 + (CHOOSE i \in 1..Len(Ascii) : Ascii[i] = c)]

\* U+FFFD, which TextDecoder writes for a byte that is no ASCII character
ReplacementChar == "<FFFD>"

\* TextDecoder.decode over the bytes the model uses
TextDecode(bytes) ==
  [i \in 1..Len(bytes) |->
     IF bytes[i] >= 32 /\ bytes[i] <= 126 THEN Ascii[bytes[i] - 31] ELSE ReplacementChar]

\* the UTF-8 bytes of an ASCII string
Utf8Bytes(s) == [i \in 1..Len(s) |-> AsciiCode[s[i]]]

B64Alphabet == <<"A","B","C","D","E","F","G","H","I","J","K","L","M","N","O","P","Q","R","S","T","U","V","W","X","Y","Z","a","b","c","d","e","f","g","h","i","j","k","l","m","n","o","p","q","r","s","t","u","v","w","x","y","z","0","1","2","3","4","5","6","7","8","9","+","/">>

B64Value == [c \in Range(B64Alphabet) |-> (CHOOSE i \in 1..64 : B64Alphabet[i] = c) - 1]

\* str.replace(/-/g, '+').replace(/_/g, '/')
UrlToStd(s) ==
  [i \in 1..Len(s) |-> IF s[i] = "-" THEN "+" ELSE IF s[i] = "_" THEN "/" ELSE s[i]]

\* while (base64.length % 4) base64 += '='
PadTo4(s) ==
  s \o [i \in 1..((4 - (Len(s) % 4)) % 4) |-> "="]

NotSpace(c) == ~IsSpace(c)
RemoveSpaces(s) == SelectSeq(s, NotSpace)

\* atob's first steps: white space removed, then one or two trailing '='
\* removed when the length is a multiple of 4
AtobStrip(s) ==
  LET t == RemoveSpaces(s)
      n == Len(t)
  IN  IF n > 0 /\ n % 4 = 0 /\ t[n] = "="
        THEN IF t[n - 1] = "=" THEN SubSeq(t, 1, n - 2) ELSE SubSeq(t, 1, n - 1)
        ELSE t

\* whether atob accepts the text
AtobOk(s) ==
  LET t == AtobStrip(s)
  IN  /\ Len(t) % 4 # 1
      /\ \A i \in 1..Len(t) : t[i] \in Range(B64Alphabet)

\* the bytes atob yields: 4 characters of 6 bits give 3 bytes
AtobBytes(s) ==
  LET t == AtobStrip(s)
      v(i) == IF i <= Len(t) THEN B64Value[t[i]] ELSE 0
      n == (Len(t) * 3) \div 4
  IN  [k \in 1..n |->
         LET g == ((k - 1) \div 3) * 4
             r == (k - 1) % 3
         IN  IF r = 0 THEN v(g + 1) * 4 + (v(g + 2) \div 16)
             ELSE IF r = 1 THEN (v(g + 2) % 16) * 16 + (v(g + 3) \div 4)
             ELSE (v(g + 3) % 4) * 64 + v(g + 4)]

\* base64UrlDecode(str): [ok, bytes]; ok is FALSE where atob throws
base64UrlDecode(str) ==
  LET base64 == PadTo4(UrlToStd(str))
  IN  IF AtobOk(base64)
        THEN [ok |-> TRUE, bytes |-> AtobBytes(base64)]
        ELSE [ok |-> FALSE, bytes |-> << >>]

\* Program constants of the token layout
MinTokenLen == 57
VersionByte == 128
SecretLen == 32
KeyLen == 16
TagLen == 32
IvStart == 9
IvEnd == 25
BlockLen == 16

\* tokenBytes.slice(1, 9), slice(9, 25), slice(25, -32), slice(-32), slice(0, -32)
TokTimestamp(tb) == SubSeq(tb, 2, IvStart)
\* the IV read one byte early: tokenBytes.slice(8, 24)
TokIvShifted(tb) == SubSeq(tb, IvStart, IvEnd - 1)
TokIv(tb) == SubSeq(tb, IvStart + 1, IvEnd)
TokCiphertext(tb) == SubSeq(tb, IvEnd + 1, Len(tb) - TagLen)
TokHmac(tb) == SubSeq(tb, Len(tb) - TagLen + 1, Len(tb))
TokMessage(tb) == SubSeq(tb, 1, Len(tb) - TagLen)

\* secretBytes.slice(0, 16) and secretBytes.slice(16, 32)
SigningKey(sb) == SubSeq(sb, 1, KeyLen)
EncryptionKey(sb) == SubSeq(sb, KeyLen + 1, 2 * KeyLen)

\* the sum of s[lo..hi], and the sum of i * s[i], by halves
RECURSIVE SumBytes(_, _, _)
SumBytes(s, lo, hi) ==
  IF lo > hi THEN 0
  ELSE IF lo = hi THEN s[lo]
  ELSE SumBytes(s, lo, (lo + hi) \div 2) + SumBytes(s, ((lo + hi) \div 2) + 1, hi)

RECURSIVE SumWeighted(_, _, _)
SumWeighted(s, lo, hi) ==
  IF lo > hi THEN 0
  ELSE IF lo = hi THEN lo * s[lo]
  ELSE SumWeighted(s, lo, (lo + hi) \div 2) + SumWeighted(s, ((lo + hi) \div 2) + 1, hi)

\* crypto.subtle.sign('HMAC', key, message): a stand-in for HMAC-SHA256 with
\* 32 output bytes.  Byte j is sum((i + j) * m[i]) plus a key term, so the
\* change of any single message byte changes the tag, and so does a change
\* of the message length or of the key.
HmacSha256(key, message) ==
  LET s1 == SumBytes(message, 1, Len(message))
      s2 == SumWeighted(message, 1, Len(message))
      k1 == SumBytes(key, 1, Len(key))
      k2 == SumWeighted(key, 1, Len(key))
      n == Len(message)
  IN  [j \in 1..TagLen |-> (s2 + j * s1 + k2 + 3 * j * k1 + 17 * n + j) % 256]

\* the skipped comparison: a decoder that accepts every tag
HmacValidSkipped(computedHmacBytes, hmac) == TRUE

\* the comparison stops after the first 16 bytes
HmacValidHalf(computedHmacBytes, hmac) ==
  /\ Len(computedHmacBytes) = Len(hmac)
  /\ \A i \in 1..KeyLen : computedHmacBytes[i] = hmac[i]

\* the constant-time comparison of the computed tag with the token's
HmacValid(computedHmacBytes, hmac) ==
  /\ Len(computedHmacBytes) = Len(hmac)
  /\ \A i \in 1..TagLen : computedHmacBytes[i] = hmac[i]

\* A stand-in for the AES-128 block cipher in CBC mode: each byte is
\* shifted by the key byte and chained with the previous block (the IV
\* for the first block), with the addition mod 256 in place of XOR.
CbcDecryptRaw(key, iv, ct) ==
  [i \in 1..Len(ct) |->
     LET prev == IF i <= BlockLen THEN iv[i] ELSE ct[i - BlockLen]
         kb == key[((i - 1) % BlockLen) + 1]
     IN  (ct[i] - prev - kb + 512) % 256]

\* PKCS7: the last byte n is in 1..16 and the last n bytes all equal n
PaddingOk(pt) ==
  /\ Len(pt) > 0
  /\ LET n == pt[Len(pt)]
     IN  /\ n >= 1
         /\ n <= BlockLen
         /\ n <= Len(pt)
         /\ \A i \in (Len(pt) - n + 1)..Len(pt) : pt[i] = n

\* crypto.subtle.decrypt({name: 'AES-CBC', iv}, key, ciphertext): [ok, bytes];
\* ok is FALSE where it rejects (the data is no whole number of blocks, or
\* the padding is invalid)
AesCbcDecrypt(key, iv, ct) ==
  LET pt == CbcDecryptRaw(key, iv, ct)
  IN  IF Len(ct) > 0 /\ Len(ct) % BlockLen = 0 /\ PaddingOk(pt)
        THEN [ok |-> TRUE, bytes |-> SubSeq(pt, 1, Len(pt) - pt[Len(pt)])]
        ELSE [ok |-> FALSE, bytes |-> << >>]

\* Error messages of decryptFernetToken
ErrPrefix == <<"F","e","r","n","e","t"," ","d","e","c","r","y","p","t","i","o","n"," ","f","a","i","l","e","d",":"," ">>
ErrBase64 == <<"I","n","v","a","l","i","d"," ","c","h","a","r","a","c","t","e","r">>
ErrTooShort == <<"I","n","v","a","l","i","d"," ","F","e","r","n","e","t"," ","t","o","k","e","n",":"," ","t","o","o"," ","s","h","o","r","t">>
ErrVersion == <<"I","n","v","a","l","i","d"," ","F","e","r","n","e","t"," ","t","o","k","e","n",":"," ","u","n","s","u","p","p","o","r","t","e","d"," ","v","e","r","s","i","o","n">>
ErrSecret == <<"F","a","i","l","e","d"," ","t","o"," ","d","e","c","o","d","e"," ","s","e","c","r","e","t"," ","k","e","y",":"," ">>
ErrSecretLen == <<"I","n","v","a","l","i","d"," ","s","e","c","r","e","t"," ","k","e","y"," ","l","e","n","g","t","h",":"," ">>
ErrExpected == <<","," ","e","x","p","e","c","t","e","d"," ","3","2">>
ErrHmac == <<"I","n","v","a","l","i","d"," ","F","e","r","n","e","t"," ","t","o","k","e","n",":"," ","H","M","A","C"," ","v","e","r","i","f","i","c","a","t","i","o","n"," ","f","a","i","l","e","d">>
ErrDecrypt == <<"T","h","e"," ","o","p","e","r","a","t","i","o","n"," ","f","a","i","l","e","d"," ","f","o","r"," ","a","n"," ","o","p","e","r","a","t","i","o","n","-","s","p","e","c","i","f","i","c"," ","r","e","a","s","o","n">>

\* the decimal digits of a natural number (template-literal formatting)
RECURSIVE DecStr(_)
DecStr(n) == IF n < 10 THEN <<Digits[n + 1]>> ELSE DecStr(n \div 10) \o <<Digits[(n % 10) + 1]>>

\* the message of the error the secret's decoding throws
SecretError(secretKey) ==
  LET sd == base64UrlDecode(secretKey)
  IN  ErrSecret \o (IF ~sd.ok
                      THEN ErrBase64
                      ELSE ErrSecretLen \o DecStr(Len(sd.bytes)) \o ErrExpected)

Threw(msg) == [ok |-> FALSE, value |-> << >>, error |-> ErrPrefix \o msg]
Returned(s) == [ok |-> TRUE, value |-> s, error |-> << >>]

\* The checks of decryptFernetToken, in the order of the code.
LengthOk(tokenBytes) == ~(Len(tokenBytes) < MinTokenLen)
VersionOk(tokenBytes) == ~(tokenBytes[1] # VersionByte)
SecretOk(secretKey) ==
  LET sd == base64UrlDecode(secretKey)
  IN  sd.ok /\ ~(Len(sd.bytes) # SecretLen)
HmacOk(tokenBytes, secretBytes) ==
  HmacValid(HmacSha256(SigningKey(secretBytes), TokMessage(tokenBytes)),
            TokHmac(tokenBytes))
Decrypted(tokenBytes, secretBytes) ==
  AesCbcDecrypt(EncryptionKey(secretBytes), TokIv(tokenBytes), TokCiphertext(tokenBytes))

\* decryptFernetToken(token, secretKey): what the call returns or throws
decryptFernetToken(token, secretKey) ==
  LET td == base64UrlDecode(token)
      tokenBytes == td.bytes
      secretBytes == base64UrlDecode(secretKey).bytes
      decrypted == Decrypted(tokenBytes, secretBytes)
  IN  IF ~td.ok THEN Threw(ErrBase64)
      ELSE IF ~LengthOk(tokenBytes) THEN Threw(ErrTooShort)
      ELSE IF ~VersionOk(tokenBytes) THEN Threw(ErrVersion)
      ELSE IF ~SecretOk(secretKey) THEN Threw(SecretError(secretKey))
      ELSE IF ~HmacOk(tokenBytes, secretBytes) THEN Threw(ErrHmac)
      ELSE IF ~decrypted.ok THEN Threw(ErrDecrypt)
      ELSE Returned(TextDecode(decrypted.bytes))

FernetScheme == <<"f","e","r","n","e","t",":","/","/">>

\* decryptFernetUrl(fernetUrl, secretKey)
decryptFernetUrl(fernetUrl, secretKey) ==
  LET token == IF StartsWith(fernetUrl, FernetScheme)
                 THEN SubSeq(fernetUrl, Len(FernetScheme) + 1, Len(fernetUrl))
                 ELSE fernetUrl
  IN  decryptFernetToken(token, secretKey)

-----------------------------------------------------------------------------
(* Values of the handler: header and query lists, requests, responses *)

\* Headers and URLSearchParams are lists of <<name, value>>; header names are
\* kept in lower case, as the Headers class normalises them.
HasEntry(list, name) == \E i \in 1..Len(list) : list[i][1] = name

\* headers.get(name): the first value, or the empty string for null
GetEntry(list, name) ==
  IF HasEntry(list, name)
    THEN list[CHOOSE i \in 1..Len(list) :
                /\ list[i][1] = name
                /\ \A j \in 1..(i - 1) : list[j][1] # name][2]
    ELSE << >>

\* headers.set(name, value)
SetEntry(list, name, value) ==
  IF HasEntry(list, name)
    THEN [i \in 1..Len(list) |-> IF list[i][1] = name THEN <<name, value>> ELSE list[i]]
    ELSE Append(list, <<name, value>>)

\* searchParams.getAll(name)
GetAll(list, name) ==
  LET named == SelectSeq(list, LAMBDA e : e[1] = name)
  IN  [i \in 1..Len(named) |-> named[i][2]]

\* the entries whose name is not `name`, in order
Without(list, name) == SelectSeq(list, LAMBDA e : e[1] # name)

NoEnv == [CALENDAR_URL |-> << >>, ENCRYPTION_KEY |-> << >>, USER_EMAILS |-> << >>]
NoRequest == [pathname |-> << >>, query |-> << >>, headers |-> << >>]
NoUpstreamRequest == [sent |-> FALSE, host |-> << >>, path |-> << >>, query |-> << >>, headers |-> << >>]
NoResponse == [status |-> 0, headers |-> << >>, body |-> << >>]
NoJson == [t |-> "undefined"]

HandlerIdle ==
  /\ env = NoEnv
  /\ req = NoRequest
  /\ pc = "idle"
  /\ branch = "none"
  /\ urlsToUse = << >>
  /\ decryptedUrls = << >>
  /\ upstreamReq = NoUpstreamRequest
  /\ upstreamResp = NoResponse
  /\ resp = NoResponse

JsonIdle ==
  /\ jsonIn = NoJson
  /\ jsonOut = NoJson
  /\ jsonPc = "idle"

MergeIdle ==
  /\ mHeap = << >>
  /\ mEvents = << >>
  /\ mUserEmails = << >>
  /\ mFiltered = << >>
  /\ mSanitized = << >>
  /\ mMerged = << >>
  /\ mPc = "idle"

DecodeIdle ==
  /\ dOrigin = [change |-> "idle"]
  /\ dToken = << >>
  /\ dSecret = << >>
  /\ dPc = "idle"
  /\ dSteps = << >>
  /\ dResult = [ok |-> FALSE, value |-> << >>, error |-> << >>]

-----------------------------------------------------------------------------
(* The reference token construction (the Fernet library the build scripts  *)
(* call, Fernet.Token.encode), with the same stand-ins for HMAC and AES.   *)

\* PKCS7 padding to whole blocks
Pkcs7Pad(bytes) ==
  LET n == BlockLen - (Len(bytes) % BlockLen)
  IN  bytes \o [i \in 1..n |-> n]

\* the inverse of CbcDecryptRaw
CbcEncryptRaw(key, iv, pt) ==
  LET ct[i \in 1..Len(pt)] ==
        LET prev == IF i <= BlockLen THEN iv[i] ELSE ct[i - BlockLen]
            kb == key[((i - 1) % BlockLen) + 1]
        IN  (pt[i] + prev + kb) % 256
  IN  [i \in 1..Len(pt) |-> ct[i]]

\* version || timestamp || IV || ciphertext || HMAC tag
EncodeBytes(version, timestamp, iv, plaintext, secretBytes) ==
  LET signing == SubSeq(secretBytes, 1, 16)
      encryption == SubSeq(secretBytes, 17, 32)
      ct == CbcEncryptRaw(encryption, iv, Pkcs7Pad(Utf8Bytes(plaintext)))
      message == <<version>> \o timestamp \o iv \o ct
  IN  message \o HmacSha256(signing, message)

B64UrlAlphabet == <<"A","B","C","D","E","F","G","H","I","J","K","L","M","N","O","P","Q","R","S","T","U","V","W","X","Y","Z","a","b","c","d","e","f","g","h","i","j","k","l","m","n","o","p","q","r","s","t","u","v","w","x","y","z","0","1","2","3","4","5","6","7","8","9","-","_">>

\* URL-safe base64 of a byte array, with or without the '=' padding
B64UrlEncode(bytes, padded) ==
  LET b(i) == IF i <= Len(bytes) THEN bytes[i] ELSE 0
      m == (Len(bytes) * 4 + 2) \div 3
      text == [k \in 1..m |->
                 LET q == ((6 * (k - 1)) \div 8) + 1
                     off == (6 * (k - 1)) % 8
                     v == IF off = 0 THEN b(q) \div 4
                          ELSE IF off = 6 THEN (b(q) % 4) * 16 + (b(q + 1) \div 16)
                          ELSE IF off = 4 THEN (b(q) % 16) * 4 + (b(q + 1) \div 64)
                          ELSE b(q) % 64
                 IN  B64UrlAlphabet[v + 1]]
  IN  IF padded THEN PadTo4(text) ELSE text

-----------------------------------------------------------------------------
(* Inputs of the decoder *)

\* Bounds of the decoder's inputs
MaxPlainLen == 17
MaxTimestamp == 3

\* the plaintexts: the prefixes of a calendar URL, up to MaxPlainLen characters
PlainBase == <<"h","t","t","p",":","/","/","a","/","c",".","i","c","s","?","k","=","v","&","z","=","1">>
Plain(n) == SubSeq(PlainBase, 1, n)

\* an 8-byte timestamp field; none is ever compared with the clock
Timestamp(k) == [i \in 1..8 |-> (85 * k) % 256]

Iv0 == [i \in 1..BlockLen |-> (7 * i) % 256]

GoodSecretBytes == [i \in 1..SecretLen |-> i]
OtherSecretBytes == [i \in 1..SecretLen |-> 100 + i]

\* the secretKey arguments: the right secret, another 32-byte secret, secrets
\* of 31 and 33 bytes, and a text that is no base64
SecretText(which) ==
  CASE which = "good" -> B64UrlEncode(GoodSecretBytes, TRUE)
    [] which = "goodUnpadded" -> B64UrlEncode(GoodSecretBytes, FALSE)
    [] which = "other" -> B64UrlEncode(OtherSecretBytes, TRUE)
    [] which = "short" -> B64UrlEncode(SubSeq(GoodSecretBytes, 1, SecretLen - 1), TRUE)
    [] which = "long" -> B64UrlEncode(GoodSecretBytes \o <<33>>, TRUE)
    [] which = "notBase64" -> <<"n","o","t","*","b","a","s","e","6","4">>

SecretKinds == {"good", "goodUnpadded", "other", "short", "long", "notBase64"}

\* one bit of one byte flipped (pos is 1-based)
FlipBit(bytes, pos, bit) ==
  LET w == 2 ^ bit
      x == bytes[pos]
  IN  [bytes EXCEPT ![pos] = IF (x \div w) % 2 = 1 THEN x - w ELSE x + w]

\* the bytes of the token an origin describes: the reference construction,
\* then at most one change made after the tag was computed
OriginBytes(o) ==
  LET clean == EncodeBytes(o.version, Timestamp(o.ts), Iv0, Plain(o.plain), GoodSecretBytes)
      pos == IF o.pos > 0 THEN o.pos ELSE Len(clean) + 1 + o.pos
  IN  CASE o.change = "none" -> clean
        [] o.change = "flip" -> FlipBit(clean, pos, o.bit)
        [] o.change = "cut" -> SubSeq(clean, 1, o.pos)

OriginToken(o) == B64UrlEncode(OriginBytes(o), o.padded)

\* tokens of the reference construction, for every plaintext and timestamp
CleanOrigins ==
  {[version |-> VersionByte, ts |-> t, plain |-> n, padded |-> p,
    change |-> "none", pos |-> 0, bit |-> 0, secret |-> s] :
     t \in 0..MaxTimestamp, n \in 0..MaxPlainLen, p \in BOOLEAN,
     s \in {"good", "goodUnpadded"}}

\* the positions of a flipped bit: the version byte, the timestamp, the IV,
\* the ciphertext (positive offsets) and the tag (negative: from the end)
FlipPositions == {1, 2, 9, 10, 25, 26, 41, -33, -32, -17, -16, -1}

FlippedOrigins ==
  {[version |-> VersionByte, ts |-> 1, plain |-> n, padded |-> TRUE,
    change |-> "flip", pos |-> q, bit |-> b, secret |-> "good"] :
     n \in {14, MaxPlainLen}, q \in FlipPositions \ {0}, b \in {0, 7}}

\* tokens cut short: nothing, below and at the minimum length, inside the ciphertext
CutOrigins ==
  {[version |-> VersionByte, ts |-> 1, plain |-> 14, padded |-> TRUE,
    change |-> "cut", pos |-> q, bit |-> 0, secret |-> "good"] :
     q \in {0, 1, MinTokenLen - 1, MinTokenLen, MinTokenLen + 1, MinTokenLen + BlockLen - 1}}

\* tokens of another version byte, with a tag that matches
VersionOrigins ==
  {[version |-> v, ts |-> 1, plain |-> 14, padded |-> TRUE,
    change |-> "none", pos |-> 0, bit |-> 0, secret |-> "good"] : v \in {0, 127, 129}}

\* clean tokens decoded with a wrong secretKey argument
SecretOrigins ==
  {[version |-> VersionByte, ts |-> 1, plain |-> n, padded |-> TRUE,
    change |-> "none", pos |-> 0, bit |-> 0, secret |-> s] :
     n \in {0, 14}, s \in SecretKinds}

Origins == CleanOrigins \cup FlippedOrigins \cup CutOrigins \cup VersionOrigins \cup SecretOrigins

-----------------------------------------------------------------------------
(* decryptFernetToken, one step at a time *)

InitDecode ==
  /\ dOrigin \in Origins
  /\ dToken = OriginToken(dOrigin)
  /\ dSecret = SecretText(dOrigin.secret)
  /\ dPc = "decodeToken"
  /\ dSteps = << >>
  /\ dResult = [ok |-> FALSE, value |-> << >>, error |-> << >>]
  /\ HandlerIdle
  /\ JsonIdle
  /\ MergeIdle

DecodeFrame ==
  /\ UNCHANGED <<dOrigin, dToken, dSecret>>
  /\ UNCHANGED handlerVars
  /\ UNCHANGED jsonVars
  /\ UNCHANGED mergeVars

\* const tokenBytes = base64UrlDecode(token)
DecodeToken ==
  /\ dPc = "decodeToken"
  /\ dSteps' = Append(dSteps, "decodeToken")
  /\ IF base64UrlDecode(dToken).ok
       THEN dPc' = "checkLength" /\ UNCHANGED dResult
       ELSE dPc' = "threw" /\ dResult' = Threw(ErrBase64)
  /\ DecodeFrame

\* if (tokenBytes.length < 57) throw
CheckLength ==
  /\ dPc = "checkLength"
  /\ dSteps' = Append(dSteps, "checkLength")
  /\ IF LengthOk(base64UrlDecode(dToken).bytes)
       THEN dPc' = "checkVersion" /\ UNCHANGED dResult
       ELSE dPc' = "threw" /\ dResult' = Threw(ErrTooShort)
  /\ DecodeFrame

\* if (version !== 0x80) throw
CheckVersion ==
  /\ dPc = "checkVersion"
  /\ dSteps' = Append(dSteps, "checkVersion")
  /\ IF VersionOk(base64UrlDecode(dToken).bytes)
       THEN dPc' = "decodeSecret" /\ UNCHANGED dResult
       ELSE dPc' = "threw" /\ dResult' = Threw(ErrVersion)
  /\ DecodeFrame

\* secretBytes = base64UrlDecode(secretKey); if (secretBytes.length !== 32) throw
DecodeSecret ==
  /\ dPc = "decodeSecret"
  /\ dSteps' = Append(dSteps, "decodeSecret")
  /\ IF SecretOk(dSecret)
       THEN dPc' = "verifyHmac" /\ UNCHANGED dResult
       ELSE dPc' = "threw" /\ dResult' = Threw(SecretError(dSecret))
  /\ DecodeFrame

\* crypto.subtle.sign, the comparison, if (!hmacValid) throw
VerifyHmac ==
  /\ dPc = "verifyHmac"
  /\ dSteps' = Append(dSteps, "verifyHmac")
  /\ IF HmacOk(base64UrlDecode(dToken).bytes, base64UrlDecode(dSecret).bytes)
       THEN dPc' = "decrypt" /\ UNCHANGED dResult
       ELSE dPc' = "threw" /\ dResult' = Threw(ErrHmac)
  /\ DecodeFrame

\* crypto.subtle.decrypt and the return of the decoded text
Decrypt ==
  LET decrypted == Decrypted(base64UrlDecode(dToken).bytes, base64UrlDecode(dSecret).bytes)
  IN  /\ dPc = "decrypt"
      /\ dSteps' = Append(dSteps, "decrypt")
      /\ IF decrypted.ok
           THEN dPc' = "returned" /\ dResult' = Returned(TextDecode(decrypted.bytes))
           ELSE dPc' = "threw" /\ dResult' = Threw(ErrDecrypt)
      /\ DecodeFrame

NextDecode ==
  \/ DecodeToken
  \/ CheckLength
  \/ CheckVersion
  \/ DecodeSecret
  \/ VerifyHmac
  \/ Decrypt

SpecDecode == InitDecode /\ [][NextDecode]_vars

\* the step-wise execution and the function agree on the outcome
DecodeAgrees ==
  dPc \in {"returned", "threw"} => dResult = decryptFernetToken(dToken, dSecret)

-----------------------------------------------------------------------------
(* JSON values.  A value carries its type in t: "str" (v: the characters), *)
(* "bool", "null", "arr" (v: the items), "obj" (v: the properties, a list  *)
(* of <<key, value>> in insertion order, keys being character strings).    *)
(* Undefined is what a property read yields when the property is absent.   *)

Str(chars) == [t |-> "str", v |-> chars]
Bool(b) == [t |-> "bool", v |-> b]
Arr(items) == [t |-> "arr", v |-> items]
Obj(entries) == [t |-> "obj", v |-> entries]
Null == [t |-> "null"]
Undefined == [t |-> "undefined"]

EmptyStr == Str(<< >>)

\* Array.isArray(x)
IsArray(x) == x.t = "arr"

\* x && typeof x === 'object'
IsObjectLike(x) == x.t \in {"arr", "obj"}

\* the truthiness of a value: what `!x`, `x || y` and `if (x)` test
Truthy(x) ==
  CASE x.t = "str" -> x.v # << >>
    [] x.t = "bool" -> x.v
    [] x.t \in {"arr", "obj"} -> TRUE
    [] OTHER -> FALSE

\* a || b
Or(a, b) == IF Truthy(a) THEN a ELSE b

\* x === undefined || x === null
IsNullish(x) == x.t \in {"null", "undefined"}

\* obj[key]: Undefined when obj is no plain object or has no such property
Prop(obj, key) ==
  IF obj.t = "obj" /\ HasEntry(obj.v, key) THEN GetEntry(obj.v, key) ELSE Undefined

\* obj[key] = value, on a copy: an existing property keeps its place, a new
\* one is added last
SetProp(obj, key, value) == Obj(SetEntry(obj.v, key, value))

\* delete obj[key], on a copy
DeleteProp(obj, key) == Obj(Without(obj.v, key))

\* the concatenation of parts[lo..hi], by halves
RECURSIVE Concat(_, _, _)
Concat(parts, lo, hi) ==
  IF lo > hi THEN << >>
  ELSE IF lo = hi THEN parts[lo]
  ELSE Concat(parts, lo, (lo + hi) \div 2) \o Concat(parts, ((lo + hi) \div 2) + 1, hi)

Flatten(parts) == Concat(parts, 1, Len(parts))

\* parts.join(sep), by halves
JoinAll(parts, sep) ==
  Flatten([i \in 1..Len(parts) |-> IF i = 1 THEN parts[i] ELSE sep \o parts[i]])

\* String(x)
RECURSIVE JsString(_)
JsString(x) ==
  CASE x.t = "str" -> x.v
    [] x.t = "bool" -> IF x.v THEN <<"t","r","u","e">> ELSE <<"f","a","l","s","e">>
    [] x.t = "null" -> <<"n","u","l","l">>
    [] x.t = "undefined" -> <<"u","n","d","e","f","i","n","e","d">>
    [] x.t = "obj" -> <<"[","o","b","j","e","c","t"," ","O","b","j","e","c","t","]">>
    [] x.t = "arr" ->
         JoinAll([i \in 1..Len(x.v) |->
                    IF IsNullish(x.v[i]) THEN << >> ELSE JsString(x.v[i])], <<",">>)

\* s.toUpperCase(), one character and all
UpperChar(c) ==
  IF c \in Range(LowerLetters)
    THEN UpperLetters[CHOOSE i \in 1..26 : LowerLetters[i] = c]
    ELSE c

ToUpper(s) == [i \in 1..Len(s) |-> UpperChar(s[i])]

\* the JSON escape of one character of a string
JsonEscape(c) ==
  CASE c = "\"" -> <<"\\", "\"">>
    [] c = "\\" -> <<"\\", "\\">>
    [] c = "\n" -> <<"\\", "n">>
    [] c = "\r" -> <<"\\", "r">>
    [] c = "\t" -> <<"\\", "t">>
    [] OTHER -> <<c>>

\* a JSON string literal
Quote(chars) ==
  <<"\"">> \o Flatten([i \in 1..Len(chars) |-> JsonEscape(chars[i])]) \o <<"\"">>

\* JSON.stringify(x): properties in insertion order, no white space
RECURSIVE Stringify(_)
Stringify(x) ==
  CASE x.t = "str" -> Quote(x.v)
    [] x.t = "bool" -> IF x.v THEN <<"t","r","u","e">> ELSE <<"f","a","l","s","e">>
    [] x.t = "null" -> <<"n","u","l","l">>
    [] x.t = "arr" ->
         <<"[">> \o JoinAll([i \in 1..Len(x.v) |-> Stringify(x.v[i])], <<",">>) \o <<"]">>
    [] x.t = "obj" ->
         <<"{">> \o JoinAll([i \in 1..Len(x.v) |->
                             Quote(x.v[i][1]) \o <<":">> \o Stringify(x.v[i][2])], <<",">>)
               \o <<"}">>

-----------------------------------------------------------------------------
(* Dates.  A time value is [ok, day, ms]: the days since 1970-01-01 and the *)
(* milliseconds of the day in UTC; ok is FALSE for NaN (Invalid Date).      *)
(* toISOString writes a valid time value as one fixed text, a different     *)
(* text for each value, so the model keeps the time value in its place.     *)

MsPerMinute == 60000
MsPerDay == 86400000

NaN == [ok |-> FALSE, day |-> 0, ms |-> 0]

DigitVal(c) == (CHOOSE i \in 1..10 : Digits[i] = c) - 1

AllDigits(s, a, b) == \A i \in a..b : IsDigit(s[i])

\* the number written by the digits s[a..b]
RECURSIVE NumAt(_, _, _)
NumAt(s, a, b) ==
  IF a > b THEN 0 ELSE 10 * NumAt(s, a, b - 1) + DigitVal(s[b])

\* the days from 1970-01-01 to a civil date, the year counted from March
DaysFromEra(era, yoe, doy) ==
  era * 146097 + yoe * 365 + (yoe \div 4) - (yoe \div 100) + doy - 719468

DaysFromMarch(yy, mp, d) ==
  DaysFromEra(yy \div 400, yy % 400, ((153 * mp + 2) \div 5) + d - 1)

\* the days from 1970-01-01 to the civil date y-m-d
DaysFromCivil(y, m, d) ==
  DaysFromMarch(IF m <= 2 THEN y - 1 ELSE y, IF m > 2 THEN m - 3 ELSE m + 9, d)

\* a time value from a day and any number of milliseconds
TimeValue(day, ms) ==
  [ok |-> TRUE, day |-> day + (ms \div MsPerDay), ms |-> ms % MsPerDay]

\* YYYY-MM-DD at the start of s
DateShapeOk(s) ==
  /\ Len(s) >= 10
  /\ AllDigits(s, 1, 4) /\ s[5] = "-"
  /\ AllDigits(s, 6, 7) /\ s[8] = "-"
  /\ AllDigits(s, 9, 10)
  /\ NumAt(s, 6, 7) \in 1..12
  /\ NumAt(s, 9, 10) \in 1..31

\* THH:MM:SS at s[11..19]
TimeShapeOk(s) ==
  /\ Len(s) >= 19
  /\ s[11] = "T"
  /\ AllDigits(s, 12, 13) /\ s[14] = ":"
  /\ AllDigits(s, 15, 16) /\ s[17] = ":"
  /\ AllDigits(s, 18, 19)
  /\ NumAt(s, 12, 13) <= 23
  /\ NumAt(s, 15, 16) <= 59
  /\ NumAt(s, 18, 19) <= 59

\* +HH:MM or -HH:MM at s[a..a+5]
OffsetShapeOk(s, a) ==
  /\ s[a] \in {"+", "-"}
  /\ AllDigits(s, a + 1, a + 2) /\ s[a + 3] = ":"
  /\ AllDigits(s, a + 4, a + 5)
  /\ NumAt(s, a + 1, a + 2) <= 23
  /\ NumAt(s, a + 4, a + 5) <= 59

\* the minutes east of UTC that the offset at s[a..a+5] names
OffsetMinutes(s, a) ==
  (IF s[a] = "-" THEN -1 ELSE 1) * (60 * NumAt(s, a + 1, a + 2) + NumAt(s, a + 4, a + 5))

\* the time value of a text whose date and time of day have been read
ParseZone(s, day, msOfDay) ==
  IF Len(s) = 19 THEN TimeValue(day, msOfDay)
  ELSE IF Len(s) = 20 /\ s[20] = "Z" THEN TimeValue(day, msOfDay)
  ELSE IF Len(s) = 24 /\ s[20] = "." /\ AllDigits(s, 21, 23) /\ s[24] = "Z"
    THEN TimeValue(day, msOfDay + NumAt(s, 21, 23))
  ELSE IF Len(s) = 25 /\ OffsetShapeOk(s, 20)
    THEN TimeValue(day, msOfDay - OffsetMinutes(s, 20) * MsPerMinute)
  ELSE NaN

\* the time value of a text whose date has been read
ParseTime(s, day) ==
  IF Len(s) = 10 THEN TimeValue(day, 0)
  ELSE IF ~TimeShapeOk(s) THEN NaN
  ELSE ParseZone(s, day, (NumAt(s, 12, 13) * 60 + NumAt(s, 15, 16)) * MsPerMinute
                           + NumAt(s, 18, 19) * 1000)

\* new Date(s) for a string, in the ISO 8601 forms: the date alone (UTC), the
\* date and time without zone (local time, which is UTC in the worker), with
\* Z, with milliseconds and Z, and with a numeric offset; NaN for every other
\* text the model uses
DateParse(s) ==
  IF ~DateShapeOk(s) THEN NaN
  ELSE ParseTime(s, DaysFromCivil(NumAt(s, 1, 4), NumAt(s, 6, 7), NumAt(s, 9, 10)))

\* new Date(x) for a value
NewDate(x) ==
  CASE x.t = "str" -> DateParse(x.v)
    [] x.t = "bool" -> TimeValue(0, IF x.v THEN 1 ELSE 0)
    [] x.t = "null" -> TimeValue(0, 0)
    [] OTHER -> NaN

\* a - b for two dates: [nan, sign], nan when either date is invalid
DateMinus(a, b) ==
  IF ~a.ok \/ ~b.ok THEN [nan |-> TRUE, sign |-> 0]
  ELSE [nan |-> FALSE,
        sign |-> IF a.day # b.day THEN (IF a.day < b.day THEN -1 ELSE 1)
                 ELSE IF a.ms # b.ms THEN (IF a.ms < b.ms THEN -1 ELSE 1)
                 ELSE 0]

\* normalizeDate(dateValue): the ISO text of the date, kept as its time
\* value; ok is FALSE for null
normalizeDate(dateValue) ==
  IF ~Truthy(dateValue) THEN NaN ELSE NewDate(dateValue)

-----------------------------------------------------------------------------
(* Event Processor: the readers of an event's fields *)

MinOf(S) == CHOOSE x \in S : \A y \in S : x <= y

\* the first position from p on whose character fails Class, or Len(s) + 1
FirstNot(s, p, Class(_)) ==
  MinOf({k \in p..Len(s) : ~Class(s[k])} \cup {Len(s) + 1})

\* s occurs in t at position i, letter case ignored (the regex flag i)
OccursAtCI(t, s, i) ==
  /\ i >= 1
  /\ i + Len(s) - 1 <= Len(t)
  /\ ToUpper(SubSeq(t, i, i + Len(s) - 1)) = ToUpper(s)

IncludesCI(t, s) == \E i \in 1..Len(t) : OccursAtCI(t, s, i)

StartAliases ==
  <<<<"s","t","a","r","t">>, <<"s","t","a","r","t","D","a","t","e">>, <<"s","t","a","r","t","_","t","i","m","e">>, <<"s","t","a","r","t","T","i","m","e">>,
    <<"d","t","s","t","a","r","t">>, <<"s","t","a","r","t","_","d","a","t","e">>, <<"d","a","t","e","S","t","a","r","t">>, <<"d","a","t","e","_","s","t","a","r","t">>>>
EndAliases ==
  <<<<"e","n","d">>, <<"e","n","d","D","a","t","e">>, <<"e","n","d","_","t","i","m","e">>, <<"e","n","d","T","i","m","e">>,
    <<"d","t","e","n","d">>, <<"e","n","d","_","d","a","t","e">>, <<"d","a","t","e","E","n","d">>, <<"d","a","t","e","_","e","n","d">>>>

\* the value of the first of the names that the event holds with a value
\* other than undefined and null; null when there is none
PropAtFirst(event, names, held) ==
  IF held = {} THEN Null ELSE Prop(event, names[MinOf(held)])

FirstPresent(event, names) ==
  PropAtFirst(event, names, {i \in 1..Len(names) : ~IsNullish(Prop(event, names[i]))})

\* getEventTime(event, field)
getEventTime(event, field) ==
  FirstPresent(event, IF field = "start" THEN StartAliases ELSE EndAliases)

\* getEventTitle(event)
getEventTitle(event) ==
  Or(Or(Or(Or(Prop(event, <<"t","i","t","l","e">>), Prop(event, <<"s","u","m","m","a","r","y">>)),
           Prop(event, <<"n","a","m","e">>)), Prop(event, <<"t","e","x","t">>)), EmptyStr)

\* getEventDescription(event)
getEventDescription(event) ==
  Or(Or(Prop(event, <<"d","e","s","c","r","i","p","t","i","o","n">>), Prop(event, <<"d","e","s","c">>)), EmptyStr)

DefaultCalendar == <<"d","e","f","a","u","l","t">>

\* getCalendarId(event)
getCalendarId(event) ==
  Or(Or(Or(Or(Prop(event, <<"c","a","l","e","n","d","a","r">>), Prop(event, <<"c","a","l","e","n","d","a","r","I","d">>)),
           Prop(event, <<"c","a","l","e","n","d","a","r","_","i","d">>)), Prop(event, <<"s","o","u","r","c","e">>)), Str(DefaultCalendar))

\* a character of [:\s]
IsColonOrSpace(c) == c = ":" \/ IsSpace(c)

\* ical.match(/CLASS[:\s]*([A-Za-z]+)/i): the positions where the pattern matches
ClassMatches(ical) ==
  {i \in 1..Len(ical) :
     /\ OccursAtCI(ical, <<"C","L","A","S","S">>, i)
     /\ LET q == FirstNot(ical, i + 5, IsColonOrSpace)
        IN  q <= Len(ical) /\ IsLetter(ical[q])}

\* the letters [A-Za-z]+ from position q on
LetterRun(s, q) == SubSeq(s, q, FirstNot(s, q, IsLetter) - 1)

\* classMatch[1] of the leftmost match
ClassMatchGroup(ical) ==
  LetterRun(ical, FirstNot(ical, MinOf(ClassMatches(ical)) + 5, IsColonOrSpace))

\* the classValue that getEventClass reads from the event's own fields
ClassFromFields(event) ==
  Or(Or(Or(Or(Or(Prop(event, <<"c","l","a","s","s">>), Prop(event, <<"C","L","A","S","S">>)),
              Prop(event, <<"c","l","a","s","s","i","f","i","c","a","t","i","o","n">>)), Prop(event, <<"C","L","A","S","S">>)),
        Prop(event, <<"c","l","a","s","s">>)), Null)

\* ... from event.properties
PropertiesClass(properties) ==
  Or(Or(Or(Or(Prop(properties, <<"C","L","A","S","S">>), Prop(properties, <<"c","l","a","s","s">>)),
           Prop(Prop(properties, <<"C","L","A","S","S">>), <<"v","a","l","u","e">>)),
        Prop(Prop(properties, <<"c","l","a","s","s">>), <<"v","a","l","u","e">>)), Null)

ClassFromProperties(event) == PropertiesClass(Prop(event, <<"p","r","o","p","e","r","t","i","e","s">>))

\* ... from event.ical, a raw iCal text or an object
ClassFromIcal(ical, classValue) ==
  IF ical.t = "str"
    THEN IF ClassMatches(ical.v) # {} THEN Str(ClassMatchGroup(ical.v)) ELSE classValue
    ELSE IF IsObjectLike(ical)
      THEN Or(Or(Prop(ical, <<"C","L","A","S","S">>), Prop(ical, <<"c","l","a","s","s">>)), Null)
      ELSE classValue

\* if (!classValue && event.properties) ...
ClassOrProperties(event, classValue) ==
  IF ~Truthy(classValue) /\ Truthy(Prop(event, <<"p","r","o","p","e","r","t","i","e","s">>))
    THEN ClassFromProperties(event) ELSE classValue

\* if (!classValue && event.ical) ...
ClassOrIcal(event, classValue) ==
  IF ~Truthy(classValue) /\ Truthy(Prop(event, <<"i","c","a","l">>))
    THEN ClassFromIcal(Prop(event, <<"i","c","a","l">>), classValue) ELSE classValue

\* the last lines of getEventClass: null for none, otherwise upper case
ClassResult(classValue) ==
  IF IsNullish(classValue) \/ classValue = EmptyStr
    THEN Null ELSE Str(ToUpper(JsString(classValue)))

\* getEventClass(event): the class in upper case, Null when there is none
getEventClass(event) ==
  ClassResult(ClassOrIcal(event, ClassOrProperties(event, ClassFromFields(event))))

ClassPublic == <<"P","U","B","L","I","C">>

\* isPublicEvent(event)
isPublicEvent(event) == getEventClass(event) = Str(ClassPublic)

BusyText == <<"B","U","S","Y">>

\* the assignments of removeAllEventInfo, in the order of the code
ClearedFields ==
  <<<<<<"t","i","t","l","e">>, EmptyStr>>, <<<<"s","u","m","m","a","r","y">>, EmptyStr>>, <<<<"n","a","m","e">>, EmptyStr>>,
    <<<<"t","e","x","t">>, Str(BusyText)>>, <<<<"d","e","s","c","r","i","p","t","i","o","n">>, EmptyStr>>, <<<<"d","e","s","c">>, EmptyStr>>,
    <<<<"l","o","c","a","t","i","o","n">>, EmptyStr>>, <<<<"l","o","c">>, EmptyStr>>, <<<<"u","r","l">>, EmptyStr>>,
    <<<<"l","i","n","k">>, EmptyStr>>, <<<<"o","r","g","a","n","i","z","e","r">>, EmptyStr>>, <<<<"a","t","t","e","n","d","e","e","s">>, EmptyStr>>,
    <<<<"a","t","t","e","n","d","e","e">>, EmptyStr>>, <<<<"p","a","r","t","i","c","i","p","a","n","t","s">>, EmptyStr>>, <<<<"l","a","b","e","l">>, EmptyStr>>,
    <<<<"n","o","t","e","s">>, EmptyStr>>, <<<<"n","o","t","e">>, EmptyStr>>, <<<<"c","o","m","m","e","n","t">>, EmptyStr>>,
    <<<<"c","o","m","m","e","n","t","s">>, EmptyStr>>, <<<<"i","c","a","l">>, EmptyStr>>, <<<<"u","i","d">>, EmptyStr>>,
    <<<<"i","d">>, EmptyStr>>, <<<<"c","a","t","e","g","o","r","i","e","s">>, EmptyStr>>, <<<<"c","o","l","o","r">>, EmptyStr>>,
    <<<<"c","s","s","_","c","l","a","s","s","e","s">>, EmptyStr>>, <<<<"o","w","c">>, EmptyStr>>, <<<<"r","e","c","u","r","r","e","n","c","e">>, EmptyStr>>,
    <<<<"s","e","q","u","e","n","c","e">>, EmptyStr>>, <<<<"t","y","p","e">>, EmptyStr>>, <<<<"_","i","s","N","o","n","P","u","b","l","i","c">>, Bool(TRUE)>>>>

\* a list of assignments to distinct properties, applied to a copy
AssignAll(obj, assignments) ==
  Obj([i \in 1..Len(obj.v) |->
         IF HasEntry(assignments, obj.v[i][1])
           THEN <<obj.v[i][1], GetEntry(assignments, obj.v[i][1])>>
           ELSE obj.v[i]]
      \o SelectSeq(assignments, LAMBDA a : ~HasEntry(obj.v, a[1])))

\* removeAllEventInfo(event), on a copy of the event
removeAllEventInfo(event) == AssignAll(event, ClearedFields)

\* sanitizeNonPublicEvent(event)
sanitizeNonPublicEvent(event) ==
  IF isPublicEvent(event) THEN event ELSE removeAllEventInfo(event)

\* parseUserEmails(userEmailsSecret)
TrimLowerAll(pieces) == [i \in 1..Len(pieces) |-> ToLower(Trim(pieces[i]))]

parseUserEmails(userEmailsSecret) ==
  IF userEmailsSecret = << >> THEN << >>
  ELSE FilterNonEmpty(TrimLowerAll(Split(userEmailsSecret, ",")))

\* the subsequence of s at the positions that satisfy Keep
At(s, positions) == [j \in 1..Len(positions) |-> s[positions[j]]]

SelectAt(s, Keep(_)) == At(s, SelectSeq([k \in 1..Len(s) |-> k], Keep))

FoldMark == <<"\r", "\n", " ">>

\* ical.replace(/\r\n /g, '')
Unfold(ical) ==
  SelectAt(ical, LAMBDA k : ~\E i \in (k - 2)..k : OccursAt(ical, FoldMark, i))

\* text.split(/\r?\n/)
DropFinalCr(pieces) ==
  [i \in 1..Len(pieces) |->
     IF i < Len(pieces) /\ pieces[i] # << >> /\ pieces[i][Len(pieces[i])] = "\r"
       THEN SubSeq(pieces[i], 1, Len(pieces[i]) - 1)
       ELSE pieces[i]]

SplitLines(text) == DropFinalCr(Split(text, "\n"))

\* /^STATUS:(CANCELLED|DECLINED)/im.test(ical)
StatusCancelled(ical) ==
  \E i \in 1..Len(ical) :
    /\ i = 1 \/ ical[i - 1] \in {"\n", "\r"}
    /\ \/ OccursAtCI(ical, <<"S","T","A","T","U","S",":","C","A","N","C","E","L","L","E","D">>, i)
       \/ OccursAtCI(ical, <<"S","T","A","T","U","S",":","D","E","C","L","I","N","E","D">>, i)

\* an ATTENDEE line with PARTSTAT=DECLINED that holds one of the user's emails
UserDeclinedLine(line, userEmails) ==
  /\ StartsWith(line, <<"A","T","T","E","N","D","E","E">>)
  /\ IncludesCI(line, <<"P","A","R","T","S","T","A","T","=","D","E","C","L","I","N","E","D">>)
  /\ \E e \in 1..Len(userEmails) : Includes(ToLower(line), ToLower(userEmails[e]))

\* the css-classes test of isEventDeclined
HasDeclinedClass(cssClasses) ==
  /\ IsArray(cssClasses)
  /\ \E i \in 1..Len(cssClasses.v) :
       ToLower(JsString(cssClasses.v[i])) \in {<<"s","t","a","t","u","s","-","d","e","c","l","i","n","e","d">>, <<"p","a","r","t","s","t","a","t","-","d","e","c","l","i","n","e","d">>}

DeclinedByCssClass(event) ==
  HasDeclinedClass(Or(Or(Or(Prop(event, <<"c","s","s","-","c","l","a","s","s","e","s">>), Prop(event, <<"c","s","s","_","c","l","a","s","s","e","s">>)),
                         Prop(event, <<"c","s","s","C","l","a","s","s","e","s">>)), Arr(<< >>)))

\* the type test
IsDeclinedWord(word) ==
  /\ Truthy(word)
  /\ ToUpper(JsString(word)) \in {<<"D","E","C","L","I","N","E","D">>, <<"C","A","N","C","E","L","L","E","D">>}

DeclinedByType(event) == IsDeclinedWord(Or(Prop(event, <<"t","y","p","e">>), EmptyStr))

\* the tests on the raw iCal text
IcalDeclined(ical, userEmails) ==
  /\ Truthy(ical)
  /\ ical.t = "str"
  /\ \/ StatusCancelled(ical.v)
     \/ \E line \in Range(SplitLines(Unfold(ical.v))) : UserDeclinedLine(line, userEmails)

DeclinedByIcal(event, userEmails) ==
  IcalDeclined(Or(Prop(event, <<"i","c","a","l">>), EmptyStr), userEmails)

\* the event_status / status test
DeclinedByStatus(event) ==
  IsDeclinedWord(Or(Or(Prop(event, <<"e","v","e","n","t","_","s","t","a","t","u","s">>), Prop(event, <<"s","t","a","t","u","s">>)), Null))

\* isEventDeclined(event, userEmails)
isEventDeclined(event, userEmails) ==
  \/ DeclinedByCssClass(event)
  \/ DeclinedByType(event)
  \/ DeclinedByIcal(event, userEmails)
  \/ DeclinedByStatus(event)

\* filterDeclinedEvents(events, userEmails)
filterDeclinedEvents(events, userEmails) ==
  SelectSeq(events, LAMBDA event : ~isEventDeclined(event, userEmails))

-----------------------------------------------------------------------------
(* Event Processor: grouping, sorting and merging *)

\* the number the comparator returns, as the sort reads it: -1, 0 or 1
SignOrZero(diff) == IF diff.nan THEN 0 ELSE diff.sign

CompareStartTimes(startA, startB) ==
  IF ~Truthy(startA) \/ ~Truthy(startB) THEN 0
  ELSE SignOrZero(DateMinus(NewDate(startA), NewDate(startB)))

\* the comparator of calendarEvents.sort
CompareStart(a, b) == CompareStartTimes(getEventTime(a, "start"), getEventTime(b, "start"))

Reverse(s) == [i \in 1..Len(s) |-> s[Len(s) + 1 - i]]

\* Array.prototype.sort of the engine for an array shorter than 64 elements:
\* the first run is counted (and reversed when it descends), the rest is
\* inserted into it by binary insertion.  Positions are 0-based as in the
\* engine; arr[p + 1] is the element at position p.
RECURSIVE RunEnd(_, _, _)
RunEnd(arr, idx, isDescending) ==
  IF idx >= Len(arr) THEN idx
  ELSE LET order == CompareStart(arr[idx + 1], arr[idx])
       IN  IF (isDescending /\ order >= 0) \/ (~isDescending /\ order < 0)
             THEN idx
             ELSE RunEnd(arr, idx + 1, isDescending)

\* the array with its first run made ascending, and the length of the run
MakeRun(arr, isDescending, runLength) ==
  [arr |-> IF isDescending
             THEN Reverse(SubSeq(arr, 1, runLength)) \o SubSeq(arr, runLength + 1, Len(arr))
             ELSE arr,
   len |-> runLength]

CountRun(arr, isDescending) == MakeRun(arr, isDescending, RunEnd(arr, 2, isDescending))

\* CountAndMakeRun: [arr, len]
CountAndMakeRun(arr) == CountRun(arr, CompareStart(arr[2], arr[1]) < 0)

\* the position where the pivot goes, by binary search in [left, right)
RECURSIVE InsertionPoint(_, _, _, _)
InsertionPoint(arr, pivot, left, right) ==
  IF left >= right THEN left
  ELSE IF CompareStart(pivot, arr[left + ((right - left) \div 2) + 1]) < 0
    THEN InsertionPoint(arr, pivot, left, left + ((right - left) \div 2))
    ELSE InsertionPoint(arr, pivot, left + ((right - left) \div 2) + 1, right)

\* the element at position start moved down to position left
InsertPivot(arr, start, left) ==
  SubSeq(arr, 1, left) \o <<arr[start + 1]>> \o SubSeq(arr, left + 1, start)
    \o SubSeq(arr, start + 2, Len(arr))

RECURSIVE BinaryInsertionSort(_, _)
BinaryInsertionSort(arr, start) ==
  IF start >= Len(arr) THEN arr
  ELSE BinaryInsertionSort(
         InsertPivot(arr, start, InsertionPoint(arr, arr[start + 1], 0, start)),
         start + 1)

SortRun(run) == BinaryInsertionSort(run.arr, run.len)

\* the array left in the order in which it was given
SortByStartNot(arr) == arr

\* calendarEvents.sort((a, b) => ...)
SortByStart(arr) == IF Len(arr) < 2 THEN arr ELSE SortRun(CountAndMakeRun(arr))

\* whether a string is an array index: such property names come first, in
\* ascending order, when the properties of an object are enumerated
IsIndexKey(k) ==
  /\ Len(k) \in 1..9
  /\ AllDigits(k, 1, Len(k))
  /\ Len(k) = 1 \/ k[1] # "0"

KeyNumber(k) == NumAt(k, 1, Len(k))

\* index keys in ascending order
Ascending(indexKeys) ==
  [r \in 1..Len(indexKeys) |->
     indexKeys[CHOOSE n \in 1..Len(indexKeys) :
                 Cardinality({m \in 1..Len(indexKeys) :
                                KeyNumber(indexKeys[m]) < KeyNumber(indexKeys[n])}) = r - 1]]

\* the order in which `for (key in object)` visits keys created in this order
EnumerationOrder(keys) ==
  Ascending(SelectSeq(keys, IsIndexKey)) \o SelectSeq(keys, LAMBDA k : ~IsIndexKey(k))

\* the elements of a list without the repetitions of an earlier one
FirstSeen(ids) == SelectAt(ids, LAMBDA i : \A j \in 1..(i - 1) : ids[j] # ids[i])

\* one property name for every event
CalendarKeyShared(event) == DefaultCalendar

\* the property name under which an event is grouped
CalendarKey(event) == JsString(getCalendarId(event))

\* the keys of eventsByCalendar in the order of `for (calendarId in ...)`
CalendarKeys(events) ==
  EnumerationOrder(FirstSeen([i \in 1..Len(events) |-> CalendarKey(events[i])]))

\* eventsByCalendar[calendarId]
CalendarGroup(events, calendarId) ==
  SelectSeq(events, LAMBDA event : CalendarKey(event) = calendarId)

\* obj.key !== undefined
Has(obj, key) == Prop(obj, key).t # "undefined"

\* if (obj.key !== undefined) obj.key = value
SetIfHas(obj, key, value) == IF Has(obj, key) THEN SetProp(obj, key, value) ELSE obj

\* `${a}${sep}${b}` when both are truthy, otherwise a || b
Combine(a, sep, b) ==
  IF Truthy(a) /\ Truthy(b) THEN Str(JsString(a) \o sep \o JsString(b)) ELSE Or(a, b)

\* if (!m.title && !m.summary && !m.name) m.title = combinedTitle
TitleFallback(m, combinedTitle) ==
  IF ~Truthy(Prop(m, <<"t","i","t","l","e">>)) /\ ~Truthy(Prop(m, <<"s","u","m","m","a","r","y">>)) /\ ~Truthy(Prop(m, <<"n","a","m","e">>))
    THEN SetProp(m, <<"t","i","t","l","e">>, combinedTitle)
    ELSE m

WriteTitle(currentMerge, combinedTitle) ==
  TitleFallback(SetIfHas(SetIfHas(SetIfHas(currentMerge, <<"t","i","t","l","e">>, combinedTitle),
                                  <<"s","u","m","m","a","r","y">>, combinedTitle),
                         <<"n","a","m","e">>, combinedTitle),
                combinedTitle)

\* the title of two merged PUBLIC events written to currentMerge
MergeTitle(currentMerge, event) ==
  WriteTitle(currentMerge, Combine(getEventTitle(currentMerge), <<" ","+"," ">>, getEventTitle(event)))

\* if (!m.description && !m.desc) m.description = combinedDesc
DescriptionFallback(m, combinedDesc) ==
  IF ~Truthy(Prop(m, <<"d","e","s","c","r","i","p","t","i","o","n">>)) /\ ~Truthy(Prop(m, <<"d","e","s","c">>))
    THEN SetProp(m, <<"d","e","s","c","r","i","p","t","i","o","n">>, combinedDesc)
    ELSE m

WriteDescription(currentMerge, combinedDesc) ==
  IF ~Truthy(combinedDesc) THEN currentMerge
  ELSE DescriptionFallback(SetIfHas(SetIfHas(currentMerge, <<"d","e","s","c","r","i","p","t","i","o","n">>, combinedDesc),
                                    <<"d","e","s","c">>, combinedDesc),
                           combinedDesc)

\* the description of two merged PUBLIC events written to currentMerge
MergeDescription(currentMerge, event) ==
  WriteDescription(currentMerge,
                   Combine(getEventDescription(currentMerge), <<"\n","\n">>,
                           getEventDescription(event)))

\* if (!m.end && !m.endDate && ...) m.end = endTime
EndFallback(m, endTime) ==
  IF \A a \in 1..Len(EndAliases) : ~Truthy(Prop(m, EndAliases[a]))
    THEN SetProp(m, <<"e","n","d">>, endTime)
    ELSE m

\* the end time written to the alias that getEventTime reads, and no other
MergeEndFirstAlias(currentMerge, endTime) ==
  EndFallback(SetIfHas(currentMerge,
                       EndAliases[MinOf({a \in 1..Len(EndAliases) :
                                           Prop(currentMerge, EndAliases[a]).t
                                             \notin {"undefined", "null"}} \cup {Len(EndAliases)})],
                       endTime),
              endTime)

\* the end time written to currentMerge: every alias the record holds, and
\* `end` when none of them holds a truthy value afterwards
MergeEnd(currentMerge, endTime) ==
  EndFallback(Obj([i \in 1..Len(currentMerge.v) |->
                     IF currentMerge.v[i][1] \in Range(EndAliases)
                       THEN <<currentMerge.v[i][1], endTime>>
                       ELSE currentMerge.v[i]]),
              endTime)

\* event._isNonPublic || !isPublicEvent(event)
IsNonPublic(event) == Truthy(Prop(event, <<"_","i","s","N","o","n","P","u","b","l","i","c">>)) \/ ~isPublicEvent(event)

\* a comparison that finds no two times equal
SameInstantNever(normalizedEndTime, normalizedStartTime) == FALSE

\* normalizedEndTime && normalizedStartTime && normalizedEndTime === normalizedStartTime
SameInstant(normalizedEndTime, normalizedStartTime) ==
  /\ normalizedEndTime.ok
  /\ normalizedStartTime.ok
  /\ normalizedEndTime = normalizedStartTime

\* whether the event starts where currentMerge ends
Consecutive(currentMerge, startTime) ==
  SameInstant(normalizeDate(getEventTime(currentMerge, "end")), normalizeDate(startTime))

\* the same with the end of currentMerge left as it is
MergedKeepsEnd(currentMerge, event, endTime) ==
  IF IsNonPublic(currentMerge) \/ IsNonPublic(event)
    THEN removeAllEventInfo(currentMerge)
    ELSE MergeDescription(MergeTitle(currentMerge, event), event)

\* the same with the test made on the event only
MergedByEvent(currentMerge, event, endTime) ==
  MergeEnd(IF IsNonPublic(event)
             THEN removeAllEventInfo(currentMerge)
             ELSE MergeDescription(MergeTitle(currentMerge, event), event),
           endTime)

\* currentMerge after the event has been merged into it
Merged(currentMerge, event, endTime) ==
  MergeEnd(IF IsNonPublic(currentMerge) \/ IsNonPublic(event)
             THEN removeAllEventInfo(currentMerge)
             ELSE MergeDescription(MergeTitle(currentMerge, event), event),
           endTime)

\* mergedEvents.push(currentMerge) when there is one
PushCurrent(merged, currentMerge) ==
  IF currentMerge.t = "null" THEN merged ELSE Append(merged, currentMerge)

\* one pass of the merge loop for an event with these times
MergeTimed(acc, event, startTime, endTime) ==
  IF ~Truthy(startTime) \/ ~Truthy(endTime)
    THEN [merged |-> Append(PushCurrent(acc.merged, acc.current), event), current |-> Null]
  ELSE IF acc.current.t = "null"
    THEN [merged |-> acc.merged, current |-> event]
  ELSE IF Consecutive(acc.current, startTime)
    THEN [merged |-> acc.merged, current |-> Merged(acc.current, event, endTime)]
  ELSE [merged |-> Append(acc.merged, acc.current), current |-> event]

\* one pass of the merge loop: [merged, current], current being currentMerge
\* (Null when there is none)
MergeStep(acc, event) ==
  MergeTimed(acc, event, getEventTime(event, "start"), getEventTime(event, "end"))

RECURSIVE MergeLoop(_, _, _)
MergeLoop(calendarEvents, i, acc) ==
  IF i > Len(calendarEvents) THEN acc
  ELSE MergeLoop(calendarEvents, i + 1, MergeStep(acc, calendarEvents[i]))

\* the events that one calendar group adds to mergedEvents
MergeGroup(calendarEvents) ==
  LET acc == MergeLoop(SortByStart(calendarEvents), 1, [merged |-> << >>, current |-> Null])
  IN  PushCurrent(acc.merged, acc.current)

\* the loop over the calendar groups
MergeGroups(events, calendarIds) ==
  Flatten([g \in 1..Len(calendarIds) |-> MergeGroup(CalendarGroup(events, calendarIds[g]))])

GroupAndMerge(sanitizedEvents) == MergeGroups(sanitizedEvents, CalendarKeys(sanitizedEvents))

SanitizeAll(events) == [i \in 1..Len(events) |-> sanitizeNonPublicEvent(events[i])]

\* mergeConsecutiveEvents(events, userEmails) for an array of event objects
mergeConsecutiveEvents(events, userEmails) ==
  GroupAndMerge(SanitizeAll(filterDeclinedEvents(events, userEmails)))

\* mergeConsecutiveEvents applied to an array value
MergedArray(arr, userEmails) == Arr(mergeConsecutiveEvents(arr.v, userEmails))

\* whether mergeConsecutiveEvents throws: reading a property of null
MergeThrows(arr) == \E i \in 1..Len(arr.v) : arr.v[i].t = "null"

\* removeCalendarName(calendar)
removeCalendarName(calendar) ==
  IF calendar.t # "obj" THEN calendar
  ELSE DeleteProp(DeleteProp(DeleteProp(calendar, <<"n","a","m","e">>), <<"c","a","l","e","n","d","a","r","N","a","m","e">>), <<"t","i","t","l","e">>)

\* the element of calendars.map(...) for a calendar whose names are removed
WithMergedEvents(sanitizedCalendar, userEmails) ==
  IF IsArray(Prop(sanitizedCalendar, <<"e","v","e","n","t","s">>))
    THEN SetProp(sanitizedCalendar, <<"e","v","e","n","t","s">>,
                 MergedArray(Prop(sanitizedCalendar, <<"e","v","e","n","t","s">>), userEmails))
    ELSE sanitizedCalendar

ProcessCalendar(calendar, userEmails) ==
  WithMergedEvents(removeCalendarName(calendar), userEmails)

ProcessCalendars(calendars, userEmails) ==
  Arr([i \in 1..Len(calendars.v) |-> ProcessCalendar(calendars.v[i], userEmails)])

\* a non-empty array whose first item is an object with a time field
LooksLikeEvents(value) ==
  /\ IsArray(value)
  /\ Len(value.v) > 0
  /\ IsObjectLike(value.v[1])
  /\ \/ getEventTime(value.v[1], "start").t # "null"
     \/ getEventTime(value.v[1], "end").t # "null"

\* the keys of the generic scan that hold a non-empty array whose first item
\* is an object with a start or an end time, as positions in the object
ScanHits(jsonData) ==
  {k \in 1..Len(jsonData.v) : LooksLikeEvents(jsonData.v[k][2])}

\* which container processCalendarEventsJson chooses
Container(jsonData) ==
  IF IsArray(jsonData) THEN "array"
  ELSE IF jsonData.t # "obj" THEN "none"
  ELSE IF IsArray(Prop(jsonData, <<"e","v","e","n","t","s">>)) THEN "events"
  ELSE IF IsArray(Prop(jsonData, <<"c","a","l","e","n","d","a","r","s">>)) THEN "calendars"
  ELSE IF IsArray(Prop(jsonData, <<"d","a","t","a">>)) THEN "data"
  ELSE IF IsArray(Prop(jsonData, <<"i","t","e","m","s">>)) THEN "items"
  ELSE IF ScanHits(jsonData) # {} THEN "scan"
  ELSE "none"

\* the property that holds the container
ContainerKey(jsonData, container) ==
  CASE container = "events" -> <<"e","v","e","n","t","s">>
    [] container = "data" -> <<"d","a","t","a">>
    [] container = "items" -> <<"i","t","e","m","s">>
    [] container = "scan" -> jsonData.v[MinOf(ScanHits(jsonData))][1]

\* the branch `{...sanitizedRoot, [key]: mergeConsecutiveEvents(jsonData[key])}`
ProcessKey(jsonData, key, userEmails) ==
  SetProp(removeCalendarName(jsonData), key, MergedArray(Prop(jsonData, key), userEmails))

\* processCalendarEventsJson for the container it chooses
ProcessIn(jsonData, container, userEmails) ==
  CASE container = "array" -> MergedArray(jsonData, userEmails)
    [] container = "calendars" ->
         SetProp(removeCalendarName(jsonData), <<"c","a","l","e","n","d","a","r","s">>,
                 ProcessCalendars(Prop(jsonData, <<"c","a","l","e","n","d","a","r","s">>), userEmails))
    [] container = "none" -> removeCalendarName(jsonData)
    [] OTHER -> ProcessKey(jsonData, ContainerKey(jsonData, container), userEmails)

\* processCalendarEventsJson(jsonData, userEmails)
processCalendarEventsJson(jsonData, userEmails) ==
  ProcessIn(jsonData, Container(jsonData), userEmails)

\* a calendar on which calendars.map(...) throws
CalendarThrows(calendar) ==
  \/ calendar.t = "null"
  \/ /\ IsArray(Prop(calendar, <<"e","v","e","n","t","s">>))
     /\ MergeThrows(Prop(calendar, <<"e","v","e","n","t","s">>))

ThrowsIn(jsonData, container) ==
  CASE container = "array" -> MergeThrows(jsonData)
    [] container = "calendars" ->
         \E calendar \in Range(Prop(jsonData, <<"c","a","l","e","n","d","a","r","s">>).v) : CalendarThrows(calendar)
    [] container = "none" -> FALSE
    [] OTHER -> MergeThrows(Prop(jsonData, ContainerKey(jsonData, container)))

\* whether processCalendarEventsJson throws a TypeError
processThrows(jsonData) == ThrowsIn(jsonData, Container(jsonData))

-----------------------------------------------------------------------------
(* The event processing of a parsed body: the try block of sanitizeResponse *)

\* Bound: the longest list of events in one container
MaxEvents == 2

T0900 == <<"2","0","2","4","-","0","1","-","0","1","T","0","9",":","0","0",":","0","0","Z">>
T1000 == <<"2","0","2","4","-","0","1","-","0","1","T","1","0",":","0","0",":","0","0","Z">>
T1000ms == <<"2","0","2","4","-","0","1","-","0","1","T","1","0",":","0","0",":","0","0",".","0","0","0","Z">>
T1100 == <<"2","0","2","4","-","0","1","-","0","1","T","1","1",":","0","0",":","0","0","Z">>
T1100off == <<"2","0","2","4","-","0","1","-","0","1","T","1","2",":","0","0",":","0","0","+","0","1",":","0","0">>
T1200 == <<"2","0","2","4","-","0","1","-","0","1","T","1","2",":","0","0",":","0","0","Z">>

UserEmailsSecret == <<" ","M","e","@","X",".","o","r","g"," ",","," ">>

\* a PUBLIC event of calendar `work`, 09:00 to 10:00, as the upstream writes it
EvLunch ==
  Obj(<<<<<<"s","t","a","r","t","_","d","a","t","e">>, Str(T0900)>>, <<<<"e","n","d","_","d","a","t","e">>, Str(T1000)>>,
        <<<<"t","e","x","t">>, Str(<<"L","u","n","c","h">>)>>, <<<<"d","e","s","c","r","i","p","t","i","o","n">>, Str(<<"c","a","f","e">>)>>,
        <<<<"c","a","l","e","n","d","a","r">>, Str(<<"w","o","r","k">>)>>,
        <<<<"i","c","a","l">>, Str(<<"S","U","M","M","A","R","Y",":","L","u","n","c","h","\r","\n","C","L","A","S","S",":","P","U","B","L","I","C">>)>>>>)

\* a PUBLIC event of calendar `work`, 10:00 to 11:00, in other field names
EvReview ==
  Obj(<<<<<<"t","i","t","l","e">>, Str(<<"R","e","v","i","e","w">>)>>, <<<<"s","t","a","r","t">>, Str(T1000ms)>>,
        <<<<"e","n","d">>, Str(T1100off)>>, <<<<"c","l","a","s","s">>, Str(<<"p","u","b","l","i","c">>)>>,
        <<<<"c","a","l","e","n","d","a","r">>, Str(<<"w","o","r","k">>)>>>>)

\* a PRIVATE event of calendar `work`, 11:00 to 12:00
EvDoctor ==
  Obj(<<<<<<"s","t","a","r","t","_","d","a","t","e">>, Str(T1100)>>, <<<<"e","n","d","_","d","a","t","e">>, Str(T1200)>>,
        <<<<"t","e","x","t">>, Str(<<"D","o","c","t","o","r">>)>>, <<<<"d","e","s","c","r","i","p","t","i","o","n">>, Str(<<"c","l","i","n","i","c">>)>>,
        <<<<"l","o","c","a","t","i","o","n">>, Str(<<"M","a","i","n"," ","S","t">>)>>, <<<<"c","a","l","e","n","d","a","r">>, Str(<<"w","o","r","k">>)>>,
        <<<<"i","c","a","l">>, Str(<<"S","U","M","M","A","R","Y",":","D","o","c","t","o","r","\r","\n","C","L","A","S","S",":","P","R","I","V","A","T","E">>)>>>>)

\* an event with no CLASS at all, of the default calendar, 10:00 to 11:00
EvSecret ==
  Obj(<<<<<<"t","i","t","l","e">>, Str(<<"S","e","c","r","e","t">>)>>, <<<<"s","t","a","r","t">>, Str(T1000)>>,
        <<<<"e","n","d">>, Str(T1100)>>>>)

\* a PUBLIC event that the user declined, of calendar `work`
EvParty ==
  Obj(<<<<<<"s","t","a","r","t","_","d","a","t","e">>, Str(T1000)>>, <<<<"e","n","d","_","d","a","t","e">>, Str(T1100)>>,
        <<<<"t","e","x","t">>, Str(<<"P","a","r","t","y">>)>>, <<<<"c","a","l","e","n","d","a","r">>, Str(<<"w","o","r","k">>)>>,
        <<<<"i","c","a","l">>,
          Str(<<"C","L","A","S","S",":","P","U","B","L","I","C","\r","\n","A","T","T","E","N","D","E","E",";","P","A","R","T","S","T","A","T","=","D","E","C","L","I","N","E","D",":","m","a","i","l","t","o",":","m","e","@","x",".","o","r","g">>)>>>>)

\* a PUBLIC event without times
EvNote ==
  Obj(<<<<<<"t","i","t","l","e">>, Str(<<"N","o","t","e">>)>>, <<<<"C","L","A","S","S">>, Str(<<"P","U","B","L","I","C">>)>>,
        <<<<"c","a","l","e","n","d","a","r">>, Str(<<"w","o","r","k">>)>>>>)

EventPool == {EvLunch, EvReview, EvDoctor, EvSecret, EvParty, EvNote, Null}

\* the lists of at most n events
RECURSIVE EventLists(_)
EventLists(n) ==
  IF n = 0 THEN {<< >>}
  ELSE LET shorter == EventLists(n - 1)
       IN  shorter \cup {Append(l, e) : l \in {s \in shorter : Len(s) = n - 1}, e \in EventPool}

\* the bodies: a list of events in each of the containers the upstream uses
JsonShapes == {"array", "events", "calendars", "data", "items", "entries", "two", "plain"}

JsonDoc(shape, list) ==
  CASE shape = "array" -> Arr(list)
    [] shape = "events" ->
         Obj(<<<<<<"n","a","m","e">>, Str(<<"M","y"," ","c","a","l","e","n","d","a","r">>)>>, <<<<"e","v","e","n","t","s">>, Arr(list)>>>>)
    [] shape = "calendars" ->
         Obj(<<<<<<"c","a","l","e","n","d","a","r","s">>,
                 Arr(<<Obj(<<<<<<"n","a","m","e">>, Str(<<"W","o","r","k">>)>>, <<<<"e","v","e","n","t","s">>, Arr(list)>>>>),
                       Obj(<<<<<<"c","a","l","e","n","d","a","r","N","a","m","e">>, Str(<<"H","o","m","e">>)>>>>)>>)>>>>)
    [] shape = "data" -> Obj(<<<<<<"d","a","t","a">>, Arr(list)>>>>)
    [] shape = "items" ->
         Obj(<<<<<<"t","i","t","l","e">>, Str(<<"F","e","e","d">>)>>, <<<<"i","t","e","m","s">>, Arr(list)>>>>)
    [] shape = "entries" -> Obj(<<<<<<"e","n","t","r","i","e","s">>, Arr(list)>>>>)
    [] shape = "two" ->
         Obj(<<<<<<"e","v","e","n","t","s">>, Arr(list)>>, <<<<"i","t","e","m","s">>, Arr(<<EvDoctor>>)>>>>)
    [] shape = "plain" ->
         Obj(<<<<<<"n","a","m","e">>, Str(<<"M","y"," ","c","a","l","e","n","d","a","r">>)>>, <<<<"o","k">>, Bool(Len(list) > 0)>>>>)

JsonDocs == {JsonDoc(shape, list) : shape \in JsonShapes, list \in EventLists(MaxEvents)}

InitJson ==
  /\ jsonIn \in JsonDocs
  /\ jsonOut = Undefined
  /\ jsonPc = "parsed"
  /\ env \in {[NoEnv EXCEPT !.USER_EMAILS = e] : e \in {<< >>, UserEmailsSecret}}
  /\ req = NoRequest
  /\ pc = "idle"
  /\ branch = "none"
  /\ urlsToUse = << >>
  /\ decryptedUrls = << >>
  /\ upstreamReq = NoUpstreamRequest
  /\ upstreamResp = NoResponse
  /\ resp = NoResponse
  /\ DecodeIdle
  /\ MergeIdle

JsonFrame ==
  /\ UNCHANGED jsonIn
  /\ UNCHANGED handlerVars
  /\ UNCHANGED decodeVars
  /\ UNCHANGED mergeVars

\* the container that processCalendarEventsJson finds
FindArray ==
  /\ jsonPc = "parsed"
  /\ Container(jsonIn) = "array"
  /\ jsonPc' = "array"
  /\ UNCHANGED jsonOut
  /\ JsonFrame

FindEvents ==
  /\ jsonPc = "parsed"
  /\ Container(jsonIn) = "events"
  /\ jsonPc' = "events"
  /\ UNCHANGED jsonOut
  /\ JsonFrame

FindCalendars ==
  /\ jsonPc = "parsed"
  /\ Container(jsonIn) = "calendars"
  /\ jsonPc' = "calendars"
  /\ UNCHANGED jsonOut
  /\ JsonFrame

FindData ==
  /\ jsonPc = "parsed"
  /\ Container(jsonIn) = "data"
  /\ jsonPc' = "data"
  /\ UNCHANGED jsonOut
  /\ JsonFrame

FindItems ==
  /\ jsonPc = "parsed"
  /\ Container(jsonIn) = "items"
  /\ jsonPc' = "items"
  /\ UNCHANGED jsonOut
  /\ JsonFrame

FindByScan ==
  /\ jsonPc = "parsed"
  /\ Container(jsonIn) = "scan"
  /\ jsonPc' = "scan"
  /\ UNCHANGED jsonOut
  /\ JsonFrame

FindNone ==
  /\ jsonPc = "parsed"
  /\ Container(jsonIn) = "none"
  /\ jsonPc' = "none"
  /\ UNCHANGED jsonOut
  /\ JsonFrame

JsonContainers == {"array", "events", "calendars", "data", "items", "scan", "none"}

\* processCalendarEventsJson returns: the body becomes the processed data
ProcessReturns ==
  /\ jsonPc \in JsonContainers
  /\ ~ThrowsIn(jsonIn, jsonPc)
  /\ jsonOut' = ProcessIn(jsonIn, jsonPc, parseUserEmails(env.USER_EMAILS))
  /\ jsonPc' = "processed"
  /\ JsonFrame

\* processCalendarEventsJson throws: the catch keeps the original body
ProcessFails ==
  /\ jsonPc \in JsonContainers
  /\ ThrowsIn(jsonIn, jsonPc)
  /\ jsonOut' = jsonIn
  /\ jsonPc' = "kept"
  /\ JsonFrame

NextJson ==
  \/ FindArray
  \/ FindEvents
  \/ FindCalendars
  \/ FindData
  \/ FindItems
  \/ FindByScan
  \/ FindNone
  \/ ProcessReturns
  \/ ProcessFails

SpecJson == InitJson /\ [][NextJson]_vars


-----------------------------------------------------------------------------
(* One call of mergeConsecutiveEvents(events, userEmails), stage by stage.  *)
(* Event objects are held in mHeap and the arrays hold references to them,  *)
(* so that an assignment to a property of an object is seen through every   *)
(* reference to it.                                                         *)

\* a PUBLIC event of calendar `work` that starts and ends at 10:00
EvPing ==
  Obj(<<<<<<"t","i","t","l","e">>, Str(<<"P","i","n","g">>)>>, <<<<"s","t","a","r","t">>, Str(T1000)>>, <<<<"e","n","d">>, Str(T1000)>>,
        <<<<"c","l","a","s","s">>, Str(<<"P","U","B","L","I","C">>)>>, <<<<"c","a","l","e","n","d","a","r">>, Str(<<"w","o","r","k">>)>>>>)

\* an event with no CLASS anywhere, of calendar `home`, 09:00 to 10:00, with
\* its times under several names
EvBlock ==
  Obj(<<<<<<"s","u","m","m","a","r","y">>, Str(<<"B","l","o","c","k">>)>>, <<<<"d","e","s","c">>, Str(<<"d","e","e","p"," ","w","o","r","k">>)>>,
        <<<<"s","t","a","r","t","_","d","a","t","e">>, Str(T0900)>>, <<<<"d","t","s","t","a","r","t">>, Str(T0900)>>,
        <<<<"e","n","d","_","d","a","t","e">>, Str(T1000)>>, <<<<"d","t","e","n","d">>, Str(T1000ms)>>,
        <<<<"c","a","l","e","n","d","a","r","I","d">>, Str(<<"h","o","m","e">>)>>, <<<<"i","d">>, Str(<<"7">>)>>>>)

\* a PUBLIC event of calendar `work`, 10:00 to 11:00, that the user accepted
\* and another attendee declined
EvTalk ==
  Obj(<<<<<<"t","i","t","l","e">>, Str(<<"T","a","l","k">>)>>, <<<<"s","t","a","r","t">>, Str(T1000)>>, <<<<"e","n","d">>, Str(T1100)>>,
        <<<<"c","a","l","e","n","d","a","r">>, Str(<<"w","o","r","k">>)>>,
        <<<<"i","c","a","l">>,
          Str(<<"C","L","A","S","S",":","P","U","B","L","I","C","\r","\n","A","T","T","E","N","D","E","E",";","P","A","R","T","S","T","A","T","=","A","C","C","E","P","T","E","D",":","m","a","i","l","t","o",":","m","e","@","x",".","o","r","g","\r","\n","A","T","T","E","N","D","E","E",";","P","A","R","T","S","T","A","T","=","D","E","C","L","I","N","E","D",":","m","a","i","l","t","o",":","h","o","m","e","@","x",".","o","r","g">>)>>>>)

\* a PUBLIC event of calendar `work`, 11:00 to 12:00, that the user declined,
\* the line folded and in another letter case
EvTrip ==
  Obj(<<<<<<"t","i","t","l","e">>, Str(<<"T","r","i","p">>)>>, <<<<"s","t","a","r","t">>, Str(T1100)>>, <<<<"e","n","d">>, Str(T1200)>>,
        <<<<"c","a","l","e","n","d","a","r">>, Str(<<"w","o","r","k">>)>>, <<<<"c","l","a","s","s">>, Str(<<"P","U","B","L","I","C">>)>>,
        <<<<"i","c","a","l">>,
          Str(<<"A","T","T","E","N","D","E","E",";","C","N","=","M",";","P","A","R","T","S","T","A","T","=","d","e","c","l","i","n","e","d","\r","\n"," ",":","M","A","I","L","T","O",":","M","E","@","x",".","o","r","g">>)>>>>)

\* a PRIVATE event of calendar `work`, 09:00 to 10:00, whose description
\* holds the words `class public`
EvLecture ==
  Obj(<<<<<<"t","i","t","l","e">>, Str(<<"L","e","c","t","u","r","e">>)>>, <<<<"s","t","a","r","t">>, Str(T0900)>>, <<<<"e","n","d">>, Str(T1000)>>,
        <<<<"c","a","l","e","n","d","a","r">>, Str(<<"w","o","r","k">>)>>,
        <<<<"i","c","a","l">>, Str(<<"D","E","S","C","R","I","P","T","I","O","N",":","w","o","r","l","d","-","c","l","a","s","s"," ","p","u","b","l","i","c"," ","t","a","l","k","\r","\n","C","L","A","S","S",":","P","R","I","V","A","T","E">>)>>>>)

CallPool ==
  {EvLunch, EvReview, EvDoctor, EvParty, EvPing, EvBlock, EvTalk, EvTrip, EvNote, EvLecture, Null}

\* the arrays of at most n events
RECURSIVE CallLists(_)
CallLists(n) ==
  IF n = 0 THEN {<< >>}
  ELSE LET shorter == CallLists(n - 1)
       IN  shorter \cup {Append(l, e) : l \in {s \in shorter : Len(s) = n - 1}, e \in CallPool}

\* the objects that a list of references names
Objects(h, refs) == [i \in 1..Len(refs) |-> h[refs[i]]]

\* { ...event }: a new object with the properties of the event, at the next
\* free reference
CopyObject(h, ref) == Append(h, h[ref])

\* removeAllEventInfo(event): the assignments go to the object passed in
ClearObject(h, ref) == [h EXCEPT ![ref] = removeAllEventInfo(h[ref])]

\* the same without the copy: the event passed in is the one cleared
SanitizeInPlace(h, ref) ==
  IF isPublicEvent(h[ref]) THEN [heap |-> h, ref |-> ref]
  ELSE [heap |-> ClearObject(h, ref), ref |-> ref]

\* sanitizeNonPublicEvent(event) on objects: the heap afterwards and the
\* reference returned
SanitizeObject(h, ref) ==
  IF isPublicEvent(h[ref]) THEN [heap |-> h, ref |-> ref]
  ELSE [heap |-> ClearObject(CopyObject(h, ref), Len(h) + 1), ref |-> Len(h) + 1]

\* filteredEvents.map(event => sanitizeNonPublicEvent(event)): the heap
\* afterwards and the references of the new array
RECURSIVE SanitizeMap(_, _, _, _)
SanitizeNext(refs, i, out, done) ==
  SanitizeMap(done.heap, refs, i + 1, Append(out, done.ref))

SanitizeMap(h, refs, i, out) ==
  IF i > Len(refs) THEN [heap |-> h, refs |-> out]
  ELSE SanitizeNext(refs, i, out, SanitizeObject(h, refs[i]))

InitMerge ==
  /\ mHeap \in CallLists(MaxEvents)
  /\ mEvents = [i \in 1..Len(mHeap) |-> i]
  /\ mUserEmails \in {parseUserEmails(<< >>), parseUserEmails(UserEmailsSecret)}
  /\ mFiltered = << >>
  /\ mSanitized = << >>
  /\ mMerged = << >>
  /\ mPc = "call"
  /\ HandlerIdle
  /\ JsonIdle
  /\ DecodeIdle

MergeFrame ==
  /\ UNCHANGED <<mEvents, mUserEmails>>
  /\ UNCHANGED handlerVars
  /\ UNCHANGED jsonVars
  /\ UNCHANGED decodeVars

\* if (!Array.isArray(events) || events.length === 0) return events
ReturnEmpty ==
  /\ mPc = "call"
  /\ mEvents = << >>
  /\ mMerged' = << >>
  /\ mPc' = "returned"
  /\ UNCHANGED <<mHeap, mFiltered, mSanitized>>
  /\ MergeFrame

\* the same with the test made on the redacted events: a redacted event has
\* an empty raw fragment, type and css_classes
FilterRedacted ==
  /\ mPc = "call"
  /\ mEvents # << >>
  /\ \A i \in 1..Len(mEvents) : mHeap[mEvents[i]].t # "null"
  /\ mFiltered' = SelectSeq(mEvents, LAMBDA r : ~isEventDeclined(sanitizeNonPublicEvent(mHeap[r]),
                                                                 mUserEmails))
  /\ mPc' = "filtered"
  /\ UNCHANGED <<mHeap, mSanitized, mMerged>>
  /\ MergeFrame

\* const filteredEvents = filterDeclinedEvents(events, userEmails)
FilterDeclined ==
  /\ mPc = "call"
  /\ mEvents # << >>
  /\ \A i \in 1..Len(mEvents) : mHeap[mEvents[i]].t # "null"
  /\ mFiltered' = SelectSeq(mEvents, LAMBDA r : ~isEventDeclined(mHeap[r], mUserEmails))
  /\ mPc' = "filtered"
  /\ UNCHANGED <<mHeap, mSanitized, mMerged>>
  /\ MergeFrame

\* isEventDeclined reads a property of null and throws a TypeError
FilterThrows ==
  /\ mPc = "call"
  /\ \E i \in 1..Len(mEvents) : mHeap[mEvents[i]].t = "null"
  /\ mPc' = "threw"
  /\ UNCHANGED <<mHeap, mFiltered, mSanitized, mMerged>>
  /\ MergeFrame

SanitizedTo(done) ==
  /\ mHeap' = done.heap
  /\ mSanitized' = done.refs

\* const sanitizedEvents = filteredEvents.map(event => sanitizeNonPublicEvent(event))
SanitizeEvents ==
  /\ mPc = "filtered"
  /\ SanitizedTo(SanitizeMap(mHeap, mFiltered, 1, << >>))
  /\ mPc' = "sanitized"
  /\ UNCHANGED <<mFiltered, mMerged>>
  /\ MergeFrame

\* the grouping by calendar and the merge loops; the loops work on copies
\* ({ ...event }) and push an event without times as it is
MergeSanitized ==
  /\ mPc = "sanitized"
  /\ mMerged' = GroupAndMerge(Objects(mHeap, mSanitized))
  /\ mPc' = "returned"
  /\ UNCHANGED <<mHeap, mFiltered, mSanitized>>
  /\ MergeFrame

NextMerge ==
  \/ ReturnEmpty
  \/ FilterDeclined
  \/ FilterThrows
  \/ SanitizeEvents
  \/ MergeSanitized

SpecMerge == InitMerge /\ [][NextMerge]_vars

-----------------------------------------------------------------------------
(* The same call for arrays of up to MaxRun events, with the configured     *)
(* addresses, over events that follow one another.                          *)

MaxRun == 3

\* a PUBLIC event of calendar `work`, 11:00 to 12:00
EvDemo ==
  Obj(<<<<<<"t","i","t","l","e">>, Str(<<"D","e","m","o">>)>>, <<<<"d","e","s","c","r","i","p","t","i","o","n">>, Str(<<"s","l","i","d","e","s">>)>>,
        <<<<"s","t","a","r","t">>, Str(T1100)>>, <<<<"e","n","d">>, Str(T1200)>>,
        <<<<"c","l","a","s","s">>, Str(<<"P","U","B","L","I","C">>)>>, <<<<"c","a","l","e","n","d","a","r">>, Str(<<"w","o","r","k">>)>>>>)

\* a PUBLIC event of calendar `work` that ends at 10:00 and has no start
EvDue ==
  Obj(<<<<<<"t","i","t","l","e">>, Str(<<"D","u","e">>)>>, <<<<"e","n","d">>, Str(T1000)>>,
        <<<<"c","l","a","s","s">>, Str(<<"P","U","B","L","I","C">>)>>, <<<<"c","a","l","e","n","d","a","r">>, Str(<<"w","o","r","k">>)>>>>)

\* a PRIVATE event of calendar `work`, 10:00 to 11:00, that the user declined
EvAway ==
  Obj(<<<<<<"t","i","t","l","e">>, Str(<<"A","w","a","y">>)>>, <<<<"d","e","s","c","r","i","p","t","i","o","n">>, Str(<<"b","e","a","c","h">>)>>,
        <<<<"s","t","a","r","t">>, Str(T1000)>>, <<<<"e","n","d">>, Str(T1100)>>,
        <<<<"c","a","l","e","n","d","a","r">>, Str(<<"w","o","r","k">>)>>,
        <<<<"i","c","a","l">>,
          Str(<<"C","L","A","S","S",":","P","R","I","V","A","T","E","\r","\n","A","T","T","E","N","D","E","E",";","P","A","R","T","S","T","A","T","=","D","E","C","L","I","N","E","D",":","m","a","i","l","t","o",":","m","e","@","x",".","o","r","g">>)>>>>)

\* a CONFIDENTIAL event of calendar `work`, 09:00 to 10:00
EvGym ==
  Obj(<<<<<<"t","i","t","l","e">>, Str(<<"G","y","m">>)>>, <<<<"d","e","s","c","r","i","p","t","i","o","n">>, Str(<<"p","o","o","l">>)>>,
        <<<<"s","t","a","r","t">>, Str(T0900)>>, <<<<"e","n","d">>, Str(T1000)>>,
        <<<<"c","l","a","s","s">>, Str(<<"C","O","N","F","I","D","E","N","T","I","A","L">>)>>, <<<<"c","a","l","e","n","d","a","r">>, Str(<<"w","o","r","k">>)>>>>)

\* a PUBLIC event of calendar `work`, 09:00 to 10:00, with its title and its
\* end under several names
EvStandup ==
  Obj(<<<<<<"s","u","m","m","a","r","y">>, Str(<<"S","t","a","n","d","u","p">>)>>, <<<<"n","a","m","e">>, Str(<<"D","a","i","l","y">>)>>,
        <<<<"d","e","s","c">>, Str(<<"n","o","t","e","s">>)>>, <<<<"s","t","a","r","t">>, Str(T0900)>>,
        <<<<"e","n","d","T","i","m","e">>, Str(T1000)>>, <<<<"d","t","e","n","d">>, Str(T1000ms)>>, <<<<"d","a","t","e","_","e","n","d">>, Null>>,
        <<<<"c","l","a","s","s">>, Str(<<"P","U","B","L","I","C">>)>>, <<<<"c","a","l","e","n","d","a","r">>, Str(<<"w","o","r","k">>)>>>>)

RunPool ==
  {EvLunch, EvReview, EvDemo, EvDoctor, EvGym, EvStandup, EvPing, EvBlock, EvDue, EvAway,
   Null}

\* the arrays of at most n events
RECURSIVE RunLists(_)
RunLists(n) ==
  IF n = 0 THEN {<< >>}
  ELSE LET shorter == RunLists(n - 1)
       IN  shorter \cup {Append(l, e) : l \in {s \in shorter : Len(s) = n - 1}, e \in RunPool}

InitRuns ==
  /\ mHeap \in RunLists(MaxRun)
  /\ mEvents = [i \in 1..Len(mHeap) |-> i]
  /\ mUserEmails = parseUserEmails(UserEmailsSecret)
  /\ mFiltered = << >>
  /\ mSanitized = << >>
  /\ mMerged = << >>
  /\ mPc = "call"
  /\ HandlerIdle
  /\ JsonIdle
  /\ DecodeIdle

SpecRuns == InitRuns /\ [][NextMerge]_vars
-----------------------------------------------------------------------------
(* Response Sanitizer: injectConsoleFilter, the URL patterns, sanitizeResponse *)

\* The script that injectConsoleFilter inserts, kept as one element of the
\* text: it is a constant that starts with a line break, ends with
\* </script>, and holds no `http`, no `%40`, no `</head>` and no `<body`.
ConsoleFilterScript == "<consoleFilterScript>"

HeadClose == <<"<","/","h","e","a","d",">">>
BodyOpen == <<"<","b","o","d","y">>

\* the positions where s occurs in t
Occurrences(t, s) == {i \in 1..Len(t) : OccursAt(t, s, i)}

\* text with `inserted` put in before position p
InsertBefore(text, p, inserted) ==
  SubSeq(text, 1, p - 1) \o inserted \o SubSeq(text, p, Len(text))

NotGt(c) == c # ">"

\* html.match(/<body[^>]*>/): the positions of `<body` that a `>` follows
BodyTags(html) ==
  {i \in Occurrences(html, BodyOpen) : FirstNot(html, i + Len(BodyOpen), NotGt) <= Len(html)}

\* injectConsoleFilter(html)
injectConsoleFilter(html) ==
  IF Occurrences(html, HeadClose) # {}
    THEN InsertBefore(html, MinOf(Occurrences(html, HeadClose)), <<ConsoleFilterScript>>)
  ELSE IF BodyTags(html) # {}
    THEN InsertBefore(html,
                      FirstNot(html, MinOf(BodyTags(html)) + Len(BodyOpen), NotGt) + 1,
                      <<ConsoleFilterScript>>)
  ELSE <<ConsoleFilterScript>> \o html

Placeholder == <<"[","C","a","l","e","n","d","a","r"," ","U","R","L"," ","h","i","d","d","e","n","]">>

\* a character of [^\s"']
IsUrlChar(c) == ~IsSpace(c) /\ c \notin {"\"", "'", ConsoleFilterScript}

\* a character of [a-zA-Z0-9._-]
IsHostChar(c) == IsLetter(c) \/ IsDigit(c) \/ c \in {".", "_", "-"}

\* the position after `http://` or `https://` at position i, or 0
SchemeEnd(text, i) ==
  IF OccursAtCI(text, <<"h","t","t","p",":","/","/">>, i) THEN i + 7
  ELSE IF OccursAtCI(text, <<"h","t","t","p","s",":","/","/">>, i) THEN i + 8
  ELSE 0

\* the ends of `.ics` were the pattern to tell the letter cases apart
IcsEndsLowerCase(text, p, last) ==
  {e \in (p + 4)..last : OccursAt(text, <<".","i","c","s">>, e - 3)}

\* the ends e of `.ics` in text[p..last] that leave a character before it
IcsEnds(text, p, last) ==
  {e \in (p + 4)..last : OccursAtCI(text, <<".","i","c","s">>, e - 3)}

MaxOf(S) == CHOOSE x \in S : \A y \in S : x >= y

MaxOrZero(S) == IF S = {} THEN 0 ELSE MaxOf(S)

\* /https?:\/\/[^\s"']+\.ics/gi at position i: the last position of the
\* match, or 0 when there is none.  The greedy run gives back characters
\* until `.ics` ends the match.
IcsUrlFrom(text, p) ==
  IF p = 0 THEN 0 ELSE MaxOrZero(IcsEnds(text, p, FirstNot(text, p, IsUrlChar) - 1))

IcsUrlEnd(text, i) == IcsUrlFrom(text, SchemeEnd(text, i))

GoogleIcalPath == <<"c","a","l","e","n","d","a","r",".","g","o","o","g","l","e",".","c","o","m","/","c","a","l","e","n","d","a","r","/","i","c","a","l","/">>

\* /https?:\/\/calendar\.google\.com\/calendar\/ical\/[^\s"']+/gi at position i
GoogleFrom(text, p) ==
  IF p = 0 \/ ~OccursAtCI(text, GoogleIcalPath, p) THEN 0
  ELSE IF FirstNot(text, p + Len(GoogleIcalPath), IsUrlChar) = p + Len(GoogleIcalPath) THEN 0
  ELSE FirstNot(text, p + Len(GoogleIcalPath), IsUrlChar) - 1

GoogleUrlEnd(text, i) == GoogleFrom(text, SchemeEnd(text, i))

\* the dots of the host run text[p..last] that a character precedes and two
\* letters follow
DomainDots(text, p, last) ==
  {d \in (p + 1)..last :
     /\ text[d] = "."
     /\ d + 2 <= Len(text)
     /\ IsLetter(text[d + 1])
     /\ IsLetter(text[d + 2])}

\* /%40[a-zA-Z0-9._-]+\.[a-zA-Z]{2,}[^\s"']*/gi at position i
EncodedAtEnd(text, i) ==
  IF ~OccursAt(text, <<"%","4","0">>, i) THEN 0
  ELSE IF DomainDots(text, i + 3, FirstNot(text, i + 3, IsHostChar) - 1) = {} THEN 0
  ELSE FirstNot(text, i, IsUrlChar) - 1

\* the text from position `from` on with every match replaced; ends[i] is the
\* last position of the match at i, or 0
RECURSIVE ReplaceFrom(_, _, _)
ReplaceFrom(text, ends, from) ==
  LET starts == {i \in from..Len(text) : ends[i] > 0}
  IN  IF starts = {} THEN SubSeq(text, from, Len(text))
      ELSE SubSeq(text, from, MinOf(starts) - 1) \o Placeholder
             \o ReplaceFrom(text, ends, ends[MinOf(starts)] + 1)

\* body.replace(pattern, '[Calendar URL hidden]') for each of the patterns
HideIcsUrls(text) == ReplaceFrom(text, [i \in 1..Len(text) |-> IcsUrlEnd(text, i)], 1)
HideGoogleUrls(text) == ReplaceFrom(text, [i \in 1..Len(text) |-> GoogleUrlEnd(text, i)], 1)
HideEncodedAt(text) == ReplaceFrom(text, [i \in 1..Len(text) |-> EncodedAtEnd(text, i)], 1)

\* urlPatterns.forEach(...)
HideCalendarUrls(text) == HideEncodedAt(HideGoogleUrls(HideIcsUrls(text)))

-----------------------------------------------------------------------------
(* The JSON bodies of the upstream host, and JSON.parse on them *)

SourceA == Plain(14)
SourceB == <<"h","t","t","p","s",":","/","/","b","/","x",".","i","c","s">>
SourceFeed == <<"h","t","t","p",":","/","/","b","/","f","e","e","d">>
ClientUrl == <<"h","t","t","p",":","/","/","e","v","i","l","/","x",".","i","c","s">>
ClientFeed == <<"h","t","t","p",":","/","/","e","v","i","l","/","y">>

KnownUrls == {SourceA, SourceB, SourceFeed, ClientUrl, ClientFeed}

\* a PUBLIC event whose description names a calendar file
EvLinked ==
  Obj(<<<<<<"t","i","t","l","e">>, Str(<<"F","e","e","d">>)>>, <<<<"c","l","a","s","s">>, Str(<<"P","U","B","L","I","C">>)>>,
        <<<<"d","e","s","c","r","i","p","t","i","o","n">>, Str(<<"f","r","o","m"," ","h","t","t","p","s",":","/","/","b","/","x",".","i","c","s"," ","n","o","w">>)>>,
        <<<<"s","t","a","r","t">>, Str(T0900)>>, <<<<"e","n","d">>, Str(T1000)>>>>)

\* the error document of the upstream host for a source it cannot load
ErrorDoc(source) == Obj(<<<<<<"e","r","r","o","r">>, Str(<<"c","a","n","n","o","t"," ","l","o","a","d"," ">> \o source)>>>>)

EventDocs ==
  {Arr(<<EvDoctor, EvLunch>>),
   Arr(<<EvDoctor, Null>>),
   JsonDoc("two", <<EvLunch>>),
   JsonDoc("calendars", <<EvSecret>>),
   JsonDoc("events", <<EvLinked>>)}

UpstreamDocs == EventDocs \cup {ErrorDoc(u) : u \in KnownUrls}

\* JSON.stringify of each document, as the upstream host writes it
DocText == [d \in UpstreamDocs |-> Stringify(d)]

\* JSON.parse(body): the document whose text the body is; Undefined when the
\* body is no JSON text and the call throws
JsonParse(body) ==
  IF \E d \in UpstreamDocs : DocText[d] = body
    THEN CHOOSE d \in UpstreamDocs : DocText[d] = body
    ELSE Undefined

-----------------------------------------------------------------------------
(* sanitizeResponse *)

HContentType == <<"c","o","n","t","e","n","t","-","t","y","p","e">>
HAllowOrigin == <<"a","c","c","e","s","s","-","c","o","n","t","r","o","l","-","a","l","l","o","w","-","o","r","i","g","i","n">>
HUserAgent == <<"u","s","e","r","-","a","g","e","n","t">>
AnyOrigin == <<"*">>
TextPlain == <<"t","e","x","t","/","p","l","a","i","n">>

\* pathname.endsWith('.ics') || pathname.endsWith('.ICAL') || pathname.endsWith('.iCal')
IsCalendarFilePath(pathname) ==
  \/ EndsWith(pathname, <<".","i","c","s">>)
  \/ EndsWith(pathname, <<".","I","C","A","L">>)
  \/ EndsWith(pathname, <<".","i","C","a","l">>)

DenyMessage == <<"C","a","l","e","n","d","a","r"," ","f","i","l","e"," ","d","o","w","n","l","o","a","d"," ","i","s"," ","n","o","t"," ","a","l","l","o","w","e","d">>

\* the fixed 403 response
DenyResponse ==
  [status |-> 403,
   headers |-> <<<<HContentType, TextPlain>>, <<HAllowOrigin, AnyOrigin>>>>,
   body |-> DenyMessage]

\* response.headers.get('content-type') || ''
ContentTypeOf(response) == GetEntry(response.headers, HContentType)

\* the test with its first alternative only
IsCalendarTypeTextOnly(contentType) == Includes(contentType, <<"t","e","x","t","/","c","a","l","e","n","d","a","r">>)

\* contentType.includes('text/calendar') || contentType.includes('application/ics')
IsCalendarType(contentType) ==
  \/ Includes(contentType, <<"t","e","x","t","/","c","a","l","e","n","d","a","r">>)
  \/ Includes(contentType, <<"a","p","p","l","i","c","a","t","i","o","n","/","i","c","s">>)

IsHtml(contentType) == Includes(contentType, <<"t","e","x","t","/","h","t","m","l">>)
IsJson(contentType) == Includes(contentType, <<"a","p","p","l","i","c","a","t","i","o","n","/","j","s","o","n">>)

\* responseHeaders.set('Access-Control-Allow-Origin', '*')
WithAllowOrigin(headers) == SetEntry(headers, HAllowOrigin, AnyOrigin)

\* isCalendarEventsEndpoint
IsCalendarEventsEndpoint(pathname) ==
  \/ pathname = <<"/","c","a","l","e","n","d","a","r",".","e","v","e","n","t","s",".","j","s","o","n">>
  \/ pathname = <<"/","c","a","l","e","n","d","a","r",".","j","s","o","n">>
  \/ EndsWith(pathname, <<".","e","v","e","n","t","s",".","j","s","o","n">>)
  \/ EndsWith(pathname, <<".","j","s","o","n">>)

\* the same with nothing left of a body that cannot be parsed
ProcessedBodyOrNone(body, jsonData, userEmails) ==
  IF jsonData = Undefined THEN << >>
  ELSE IF processThrows(jsonData) THEN body
  ELSE Stringify(processCalendarEventsJson(jsonData, userEmails))

\* the try block: the processed data as text, or the body when parsing or
\* processing throws
ProcessedBody(body, jsonData, userEmails) ==
  IF jsonData = Undefined THEN body
  ELSE IF processThrows(jsonData) THEN body
  ELSE Stringify(processCalendarEventsJson(jsonData, userEmails))

JsonStage(body, contentType, pathname, userEmails) ==
  IF IsJson(contentType) /\ IsCalendarEventsEndpoint(pathname)
    THEN ProcessedBody(body, JsonParse(body), userEmails)
    ELSE body

HtmlStage(body, contentType) ==
  IF IsHtml(contentType) THEN injectConsoleFilter(body) ELSE body

SanitizedBody(body, contentType, pathname, userEmails) ==
  HideCalendarUrls(HtmlStage(JsonStage(body, contentType, pathname, userEmails), contentType))

\* the same with every body rewritten, whatever its type
SanitizeTypedAll(response, contentType, pathname, userEmails) ==
  IF IsCalendarType(contentType) \/ IsCalendarFilePath(pathname)
    THEN DenyResponse
  ELSE [status |-> response.status,
        headers |-> WithAllowOrigin(response.headers),
        body |-> SanitizedBody(response.body, contentType, pathname, userEmails)]

SanitizeTyped(response, contentType, pathname, userEmails) ==
  IF IsCalendarType(contentType) \/ IsCalendarFilePath(pathname)
    THEN DenyResponse
  ELSE IF ~IsHtml(contentType) /\ ~IsJson(contentType)
    THEN [response EXCEPT !.headers = WithAllowOrigin(response.headers)]
  ELSE [status |-> response.status,
        headers |-> WithAllowOrigin(response.headers),
        body |-> SanitizedBody(response.body, contentType, pathname, userEmails)]

\* sanitizeResponse(response, pathname, userEmails)
sanitizeResponse(response, pathname, userEmails) ==
  SanitizeTyped(response, ContentTypeOf(response), pathname, userEmails)

-----------------------------------------------------------------------------
(* The fetch handler of the fixed-secret deployment *)

UpstreamHost == <<"o","p","e","n","-","w","e","b","-","c","a","l","e","n","d","a","r",".","h","o","s","t","e","d",".","q","u","e","l","l","t","e","x","t",".","e","u">>
UrlParam == <<"u","r","l">>

MsgNoCalendarUrl == <<"C","A","L","E","N","D","A","R","_","U","R","L"," ","n","o","t"," ","c","o","n","f","i","g","u","r","e","d"," ","i","n"," ","C","l","o","u","d","f","l","a","r","e"," ","W","o","r","k","e","r"," ","s","e","c","r","e","t","s">>
MsgNoEncryptionKey == <<"E","N","C","R","Y","P","T","I","O","N","_","K","E","Y"," ","n","o","t"," ","c","o","n","f","i","g","u","r","e","d"," ","(","r","e","q","u","i","r","e","d"," ","f","o","r"," ","f","e","r","n","e","t",":","/","/"," ","U","R","L","s",")">>
MsgDecryptFailed == <<"F","a","i","l","e","d"," ","t","o"," ","d","e","c","r","y","p","t"," ","c","a","l","e","n","d","a","r"," ","U","R","L",":"," ">>
MsgError == <<"E","r","r","o","r",":"," ">>
DefaultUserAgent == <<"C","l","o","u","d","f","l","a","r","e","-","W","o","r","k","e","r">>

\* new Response(body, {status, headers: {'Content-Type': 'text/plain'}})
PlainResponse(status, body) ==
  [status |-> status, headers |-> <<<<HContentType, TextPlain>>>>, body |-> body]

TrimAll(pieces) == [i \in 1..Len(pieces) |-> Trim(pieces[i])]

\* calendarUrlSecret.split(',').map(s => s.trim()).filter(s => s)
CalendarUrls(calendarUrlSecret) == FilterNonEmpty(TrimAll(Split(calendarUrlSecret, ",")))

\* a list in which no entry is taken for a token
HasFernetUrlsNever(calendarUrls) == FALSE

\* calendarUrls.some(url => url.startsWith('fernet://'))
HasFernetUrls(calendarUrls) ==
  \E i \in 1..Len(calendarUrls) : StartsWith(calendarUrls[i], FernetScheme)

\* the configuration passes the two checks at the head of the handler
ConfigOk(e) ==
  /\ e.CALENDAR_URL # << >>
  /\ ~(HasFernetUrls(CalendarUrls(e.CALENDAR_URL)) /\ e.ENCRYPTION_KEY = << >>)

\* isMainCalendarPage
IsMainCalendarPage(pathname) ==
  \/ pathname = <<"/">>
  \/ pathname = <<"/","c","a","l","e","n","d","a","r",".","h","t","m","l">>
  \/ EndsWith(pathname, <<"/","c","a","l","e","n","d","a","r",".","h","t","m","l">>)
  \/ pathname = << >>

\* the API test without pathname.startsWith('/srcdoc')
IsApiEndpointExact(pathname) ==
  \/ pathname = <<"/","s","r","c","d","o","c">>
  \/ pathname = <<"/","c","a","l","e","n","d","a","r",".","e","v","e","n","t","s",".","j","s","o","n">>
  \/ pathname = <<"/","c","a","l","e","n","d","a","r",".","j","s","o","n">>
  \/ EndsWith(pathname, <<".","e","v","e","n","t","s",".","j","s","o","n">>)
  \/ EndsWith(pathname, <<".","j","s","o","n">>)

\* isApiEndpoint
IsApiEndpoint(pathname) ==
  \/ pathname = <<"/","s","r","c","d","o","c">>
  \/ StartsWith(pathname, <<"/","s","r","c","d","o","c">>)
  \/ pathname = <<"/","c","a","l","e","n","d","a","r",".","e","v","e","n","t","s",".","j","s","o","n">>
  \/ pathname = <<"/","c","a","l","e","n","d","a","r",".","j","s","o","n">>
  \/ EndsWith(pathname, <<".","e","v","e","n","t","s",".","j","s","o","n">>)
  \/ EndsWith(pathname, <<".","j","s","o","n">>)

\* the loop over calendarUrls: [ok, urls, error], error being the body of the
\* 500 response the loop returns
RECURSIVE DecryptLoop(_, _, _, _)
RECURSIVE PushDecrypted(_, _, _, _, _)
DecryptLoop(calendarUrls, encryptionKey, i, decrypted) ==
  IF i > Len(calendarUrls)
    THEN [ok |-> TRUE, urls |-> decrypted, error |-> << >>]
  ELSE IF ~StartsWith(calendarUrls[i], FernetScheme)
    THEN DecryptLoop(calendarUrls, encryptionKey, i + 1, Append(decrypted, calendarUrls[i]))
  ELSE IF encryptionKey = << >>
    THEN [ok |-> FALSE, urls |-> decrypted, error |-> MsgNoEncryptionKey]
  ELSE PushDecrypted(calendarUrls, encryptionKey, i, decrypted,
                     decryptFernetUrl(calendarUrls[i], encryptionKey))

PushDecrypted(calendarUrls, encryptionKey, i, decrypted, result) ==
  IF result.ok
    THEN DecryptLoop(calendarUrls, encryptionKey, i + 1, Append(decrypted, result.value))
    ELSE [ok |-> FALSE, urls |-> decrypted, error |-> MsgDecryptFailed \o result.error]

SkippedHeaders == {<<"h","o","s","t">>, <<"c","f","-","r","a","y">>, <<"c","f","-","c","o","n","n","e","c","t","i","n","g","-","i","p">>}

\* the request headers that the handler forwards
ForwardedHeaders(headers) == SelectSeq(headers, LAMBDA h : ToLower(h[1]) \notin SkippedHeaders)

\* request.headers.get('User-Agent') || 'Cloudflare-Worker'
UserAgentOf(headers) ==
  IF GetEntry(headers, HUserAgent) # << >> THEN GetEntry(headers, HUserAgent)
  ELSE DefaultUserAgent

\* every parameter of the client, then one `url` for each resolved source
SecretQueryKeepingUrl(query, urls) ==
  query \o [i \in 1..Len(urls) |-> <<UrlParam, urls[i]>>]

\* the parameters that are not `url`, then one `url` for each resolved source
SecretQuery(query, urls) ==
  Without(query, UrlParam) \o [i \in 1..Len(urls) |-> <<UrlParam, urls[i]>>]

UpstreamRequest(path, query, headers) ==
  [sent |-> TRUE, host |-> UpstreamHost, path |-> path, query |-> query, headers |-> headers]

\* let targetPath = pathname; if (pathname === '/' || pathname === '') ...
TargetPath(pathname) ==
  IF pathname = <<"/">> \/ pathname = << >> THEN <<"/","c","a","l","e","n","d","a","r",".","h","t","m","l">> ELSE pathname

-----------------------------------------------------------------------------
(* Inputs of the handler *)

TokenA ==
  OriginToken([version |-> VersionByte, ts |-> 1, plain |-> 14, padded |-> TRUE,
               change |-> "none", pos |-> 0, bit |-> 0, secret |-> "good"])

TokenCut ==
  OriginToken([version |-> VersionByte, ts |-> 1, plain |-> 14, padded |-> TRUE,
               change |-> "cut", pos |-> MinTokenLen - 1, bit |-> 0, secret |-> "good"])

MixedSecret == <<" ","f","e","r","n","e","t",":","/","/">> \o TokenA \o <<" ",",","h","t","t","p","s",":","/","/","b","/","x",".","i","c","s">>

\* the secrets of a deployment: CALENDAR_URL and ENCRYPTION_KEY
Deployments ==
  {[CALENDAR_URL |-> << >>, ENCRYPTION_KEY |-> SecretText("good")],
   [CALENDAR_URL |-> SourceFeed, ENCRYPTION_KEY |-> << >>],
   [CALENDAR_URL |-> MixedSecret, ENCRYPTION_KEY |-> SecretText("good")],
   [CALENDAR_URL |-> MixedSecret, ENCRYPTION_KEY |-> << >>],
   [CALENDAR_URL |-> MixedSecret, ENCRYPTION_KEY |-> SecretText("other")],
   [CALENDAR_URL |-> SourceB \o <<",","f","e","r","n","e","t",":","/","/">> \o TokenA \o <<",","f","e","r","n","e","t",":","/","/">> \o TokenCut,
    ENCRYPTION_KEY |-> SecretText("good")],
   [CALENDAR_URL |-> <<" ",","," ">>, ENCRYPTION_KEY |-> << >>]}

Environments ==
  {[CALENDAR_URL |-> d.CALENDAR_URL, ENCRYPTION_KEY |-> d.ENCRYPTION_KEY,
    USER_EMAILS |-> UserEmailsSecret] : d \in Deployments}

Pathnames ==
  {<<"/">>, <<"/","c","a","l","e","n","d","a","r",".","h","t","m","l">>, <<"/","a","/","c","a","l","e","n","d","a","r",".","h","t","m","l">>,
   <<"/","s","r","c","d","o","c">>, <<"/","s","r","c","d","o","c","/","c","a","l","e","n","d","a","r",".","h","t","m","l">>, <<"/","c","a","l","e","n","d","a","r",".","j","s","o","n">>, <<"/","c","a","l","e","n","d","a","r",".","e","v","e","n","t","s",".","j","s","o","n">>,
   <<"/","x","/","y",".","i","c","s">>, <<"/","x","/","y",".","I","C","S">>, <<"/","y",".","i","c","a","l">>, <<"/","y",".","i","C","a","l">>, <<"/","y",".","I","C","A","L">>, <<"/","s","r","c","d","o","c","/","a",".","i","c","s">>,
   <<"/","s","t","a","t","i","c","/","a","p","p",".","j","s">>}

\* what the client sends along: the parsed query string and the headers
ClientExtras ==
  {[query |-> << >>, headers |-> << >>],
   [query |-> <<<<UrlParam, ClientUrl>>>>,
    headers |-> <<<<HUserAgent, <<"U","A","/","1">>>>>>],
   [query |-> <<<<<<"t","a","b">>, <<"1">>>>, <<UrlParam, ClientUrl>>, <<<<"l","a","n","g">>, <<"e","n">>>>,
                <<UrlParam, ClientFeed>>>>,
    headers |-> <<<<<<"a","c","c","e","p","t">>, <<"*","/","*">>>>, <<<<"c","f","-","r","a","y">>, <<"r","1">>>>,
                  <<<<"h","o","s","t">>, <<"c","a","l",".","e","x","a","m","p","l","e">>>>, <<HUserAgent, <<"U","A","/","1">>>>>>]}

Requests ==
  {[pathname |-> p, query |-> x.query, headers |-> x.headers] :
     p \in Pathnames, x \in ClientExtras}

\* the text in which the upstream host names the sources it was asked for
SourcesText(request) == JoinAll(GetAll(request.query, UrlParam), <<","," ">>)

\* the first source it was asked for, or a fixed one
FirstSource(sources) == IF sources = << >> THEN SourceB ELSE sources[1]

Html == <<"t","e","x","t","/","h","t","m","l",";"," ","c","h","a","r","s","e","t","=","u","t","f","-","8">>
Json == <<"a","p","p","l","i","c","a","t","i","o","n","/","j","s","o","n">>

Respond(status, contentType, body) ==
  [status |-> status, headers |-> <<<<HContentType, contentType>>>>, body |-> body]

\* what the upstream host may answer to a request
UpstreamResponses(request) ==
  {Respond(200, Html,
           <<"<","h","t","m","l",">","<","h","e","a","d",">","<","t","i","t","l","e",">","c","<","/","t","i","t","l","e",">","<","/","h","e","a","d",">","<","b","o","d","y",">","<","a"," ","h","r","e","f","=","'">>
             \o SourcesText(request) \o <<"'",">","f","e","e","d","<","/","a",">","<","/","b","o","d","y",">","<","/","h","t","m","l",">">>),
   Respond(500, Html,
           <<"<","b","o","d","y"," ","c","l","a","s","s","=","\"","e","\"",">","C","a","n","n","o","t"," ","l","o","a","d"," ">> \o SourcesText(request) \o <<"<","/","b","o","d","y",">">>),
   Respond(404, Html, <<"<","p",">","n","o"," ">> \o SourcesText(request) \o <<"<","/","p",">">>),
   Respond(200, Html,
           <<"<","b","o","d","y"," ","<","a"," ","h","r","e","f","=","\"","h","t","t","p","s",":","/","/","c","a","l","e","n","d","a","r",".","g","o","o","g","l","e",".","c","o","m","/","c","a","l","e","n","d","a","r","/","i","c","a","l","/","u","/","b","a","s","i","c","\"",">","x","<","/","a",">"," ","a","%","4","0","b",".","o","r","g","/","z"," ","1","0","0","%","4","0"," ","'","H","T","T","P","S",":","/","/","H","/","P",".","I","C","S","'">>),
   Respond(200, <<"a","p","p","l","i","c","a","t","i","o","n","/","j","a","v","a","s","c","r","i","p","t">>,
           <<"v","a","r"," ","u"," ","="," ","'">> \o SourcesText(request) \o <<"'",";">>),
   Respond(200, <<"t","e","x","t","/","c","a","l","e","n","d","a","r">>, <<"B","E","G","I","N",":","V","C","A","L","E","N","D","A","R">>),
   Respond(200, <<"a","p","p","l","i","c","a","t","i","o","n","/","i","c","s">>, <<"B","E","G","I","N",":","V","C","A","L","E","N","D","A","R">>),
   [status |-> 404,
    headers |-> <<<<HContentType, <<"t","e","x","t","/","c","a","l","e","n","d","a","r",";"," ","c","h","a","r","s","e","t","=","u","t","f","-","8">>>>, <<<<"e","t","a","g">>, <<"1">>>>>>,
    body |-> <<"n","o"," ","c","a","l","e","n","d","a","r">>],
   Respond(502, TextPlain, <<"f","a","i","l","e","d",":"," ">> \o SourcesText(request)),
   [status |-> 302,
    headers |-> <<<<HContentType, Html>>,
                  <<<<"l","o","c","a","t","i","o","n">>, FirstSource(GetAll(request.query, UrlParam))>>>>,
    body |-> << >>],
   [status |-> 200, headers |-> << >>, body |-> <<"o","k">>],
   Respond(400, Json, <<"{","o","o","p","s"," ">> \o SourcesText(request)),
   Respond(500, Json, DocText[ErrorDoc(FirstSource(GetAll(request.query, UrlParam)))])}
  \cup {Respond(200, Json, DocText[d]) : d \in EventDocs}

\* the messages of the errors that fetch rejects with
FetchErrors == {<<"N","e","t","w","o","r","k"," ","c","o","n","n","e","c","t","i","o","n"," ","l","o","s","t",".">>}

-----------------------------------------------------------------------------
(* The handler, from the request to the response *)

Init ==
  /\ env \in Environments
  /\ req \in Requests
  /\ pc = "start"
  /\ branch = "none"
  /\ urlsToUse = << >>
  /\ decryptedUrls = << >>
  /\ upstreamReq = NoUpstreamRequest
  /\ upstreamResp = NoResponse
  /\ resp = NoResponse
  /\ DecodeIdle
  /\ JsonIdle
  /\ MergeIdle

HandlerFrame ==
  /\ UNCHANGED <<env, req, urlsToUse>>
  /\ UNCHANGED decodeVars
  /\ UNCHANGED jsonVars
  /\ UNCHANGED mergeVars

\* if (!calendarUrlSecret) return 500
MissingCalendarUrl ==
  /\ pc = "start"
  /\ env.CALENDAR_URL = << >>
  /\ resp' = PlainResponse(500, MsgNoCalendarUrl)
  /\ pc' = "done"
  /\ branch' = "config"
  /\ UNCHANGED <<decryptedUrls, upstreamReq, upstreamResp>>
  /\ HandlerFrame

\* if (hasFernetUrls && !encryptionKey) return 500
MissingEncryptionKey ==
  /\ pc = "start"
  /\ env.CALENDAR_URL # << >>
  /\ HasFernetUrls(CalendarUrls(env.CALENDAR_URL))
  /\ env.ENCRYPTION_KEY = << >>
  /\ resp' = PlainResponse(500, MsgNoEncryptionKey)
  /\ pc' = "done"
  /\ branch' = "config"
  /\ UNCHANGED <<decryptedUrls, upstreamReq, upstreamResp>>
  /\ HandlerFrame

\* the block of calendar files, ahead of the classification
DenyCalendarFile ==
  /\ pc = "start"
  /\ ConfigOk(env)
  /\ IsCalendarFilePath(req.pathname)
  /\ resp' = DenyResponse
  /\ pc' = "done"
  /\ branch' = "denied"
  /\ UNCHANGED <<decryptedUrls, upstreamReq, upstreamResp>>
  /\ HandlerFrame

\* if (isApiEndpoint) { ...
TakeApiEndpoint ==
  /\ pc = "start"
  /\ ConfigOk(env)
  /\ ~IsCalendarFilePath(req.pathname)
  /\ IsApiEndpoint(req.pathname)
  /\ branch' = "api"
  /\ pc' = "decrypt"
  /\ UNCHANGED <<decryptedUrls, upstreamReq, upstreamResp, resp>>
  /\ HandlerFrame

\* if (isMainCalendarPage) { ...
TakeMainPage ==
  /\ pc = "start"
  /\ ConfigOk(env)
  /\ ~IsCalendarFilePath(req.pathname)
  /\ ~IsApiEndpoint(req.pathname)
  /\ IsMainCalendarPage(req.pathname)
  /\ branch' = "main"
  /\ pc' = "decrypt"
  /\ UNCHANGED <<decryptedUrls, upstreamReq, upstreamResp, resp>>
  /\ HandlerFrame

\* every other request is proxied with its own path and query string
TakeStaticPassthrough ==
  /\ pc = "start"
  /\ ConfigOk(env)
  /\ ~IsCalendarFilePath(req.pathname)
  /\ ~IsApiEndpoint(req.pathname)
  /\ ~IsMainCalendarPage(req.pathname)
  /\ branch' = "static"
  /\ upstreamReq' = UpstreamRequest(TargetPath(req.pathname), req.query,
                                    ForwardedHeaders(req.headers))
  /\ pc' = "fetching"
  /\ UNCHANGED <<decryptedUrls, upstreamResp, resp>>
  /\ HandlerFrame

\* a loop that goes on to the fetch with the sources it has
AfterDecryptPartial(result) ==
  /\ decryptedUrls' = result.urls
  /\ pc' = "send"
  /\ UNCHANGED resp

\* the outcome of the loop over calendarUrls
AfterDecrypt(result) ==
  /\ decryptedUrls' = result.urls
  /\ IF result.ok
       THEN pc' = "send" /\ UNCHANGED resp
       ELSE pc' = "done" /\ resp' = PlainResponse(500, result.error)

\* the outcome of the loop for each deployment, computed once
LoopOutcome ==
  [e \in Environments |->
     DecryptLoop(CalendarUrls(e.CALENDAR_URL), e.ENCRYPTION_KEY, 1, << >>)]

\* for (const urlParam of calendarUrls) { ... }
DecryptSources ==
  /\ pc = "decrypt"
  /\ AfterDecrypt(LoopOutcome[env])
  /\ UNCHANGED <<branch, upstreamReq, upstreamResp>>
  /\ HandlerFrame

\* the fetch of the API branch
SendApiRequest ==
  /\ pc = "send"
  /\ branch = "api"
  /\ upstreamReq' = UpstreamRequest(req.pathname, SecretQuery(req.query, decryptedUrls),
                                    ForwardedHeaders(req.headers))
  /\ pc' = "fetching"
  /\ UNCHANGED <<branch, decryptedUrls, upstreamResp, resp>>
  /\ HandlerFrame

\* the fetch of the main-page branch
SendMainRequest ==
  /\ pc = "send"
  /\ branch = "main"
  /\ upstreamReq' = UpstreamRequest(<<"/","c","a","l","e","n","d","a","r",".","h","t","m","l">>, SecretQuery(req.query, decryptedUrls),
                                    <<<<HUserAgent, UserAgentOf(req.headers)>>>>)
  /\ pc' = "fetching"
  /\ UNCHANGED <<branch, decryptedUrls, upstreamResp, resp>>
  /\ HandlerFrame

\* the upstream host answers and the answer goes through sanitizeResponse
UpstreamResponds ==
  /\ pc = "fetching"
  /\ \E response \in UpstreamResponses(upstreamReq) :
       /\ upstreamResp' = response
       /\ resp' = sanitizeResponse(response, req.pathname, parseUserEmails(env.USER_EMAILS))
  /\ pc' = "done"
  /\ UNCHANGED <<branch, decryptedUrls, upstreamReq>>
  /\ HandlerFrame

\* a handler that sends the request again when fetch rejects
UpstreamFailsRetry ==
  /\ pc = "fetching"
  /\ pc' = "send"
  /\ UNCHANGED <<branch, decryptedUrls, upstreamReq, upstreamResp, resp>>
  /\ HandlerFrame

\* fetch rejects and the catch block answers
UpstreamFails ==
  /\ pc = "fetching"
  /\ \E message \in FetchErrors : resp' = PlainResponse(500, MsgError \o message)
  /\ pc' = "done"
  /\ UNCHANGED <<branch, decryptedUrls, upstreamReq, upstreamResp>>
  /\ HandlerFrame

Next ==
  \/ MissingCalendarUrl
  \/ MissingEncryptionKey
  \/ DenyCalendarFile
  \/ TakeApiEndpoint
  \/ TakeMainPage
  \/ TakeStaticPassthrough
  \/ DecryptSources
  \/ SendApiRequest
  \/ SendMainRequest
  \/ UpstreamResponds
  \/ UpstreamFails

Spec == Init /\ [][Next]_vars

\* the handler is one async function: each of its steps is taken, and the
\* promise of fetch settles
FairSpec == Spec /\ WF_vars(Next)


-----------------------------------------------------------------------------
(* One call of sanitizeResponse(response, pathname, userEmails) *)

\* Bound: the number of pieces of which a body is made
MaxPieces == 3

\* the pieces: the two schemes, a character of a URL, the calendar extension
\* in two letter cases, the characters that end a URL, an encoded address
Pieces ==
  {<<"h","t","t","p",":","/","/">>, <<"H","T","T","P","S",":","/","/">>, <<"a">>, <<".","i","c","s">>, <<".","I","C","S">>, <<" ">>, <<"'">>, <<"%","4","0","b",".","c","c">>}

\* the bodies made of at most n pieces
RECURSIVE PieceBodies(_)
PieceBodies(n) ==
  IF n = 0 THEN {<< >>}
  ELSE PieceBodies(n - 1) \cup {b \o p : b \in PieceBodies(n - 1), p \in Pieces}

\* a JSON document of the upstream host cut off before its last character
CutDoc == SubSeq(DocText[JsonDoc("events", <<EvLinked>>)], 1,
                 Len(DocText[JsonDoc("events", <<EvLinked>>)]) - 1)

\* bodies of the upstream host that name calendar files
NamedBodies ==
  {CutDoc,
   <<"<","h","t","m","l",">","<","h","e","a","d",">","<","/","h","e","a","d",">","<","b","o","d","y",">","C","a","n","n","o","t"," ","l","o","a","d"," ","h","t","t","p","s",":","/","/","h","/","c",".","i","c","s",":"," ","4","0","4","<","/","b","o","d","y",">","<","/","h","t","m","l",">">>,
   <<"<","b","o","d","y"," ","c","l","a","s","s","=","\"","e","\"",">","<","a"," ","h","r","e","f","=","\"","h","t","t","p",":","/","/","h","/","a",".","i","c","s","?","x","=","1","\"",">","h","t","t","p",":","/","/","h","/","b",".","i","c","s","<","/","a",">","<","/","b","o","d","y",">">>,
   <<"{","\"","e","r","r","o","r","\"",":","\"","w","e","b","c","a","l"," ","h","t","t","p","s",":","/","/","c","a","l","e","n","d","a","r",".","g","o","o","g","l","e",".","c","o","m","/","c","a","l","e","n","d","a","r","/","i","c","a","l","/","m","e","%","4","0","x",".","o","r","g","/","b","a","s","i","c",".","i","c","s","\"","}">>,
   DocText[JsonDoc("events", <<EvLinked>>)],
   DocText[ErrorDoc(SourceB)]}

\* a script of the upstream host, with headers of its own
ScriptResponse(status, body) ==
  [status |-> status,
   headers |-> <<<<HContentType, <<"a","p","p","l","i","c","a","t","i","o","n","/","j","a","v","a","s","c","r","i","p","t">>>>,
                 <<<<"c","a","c","h","e","-","c","o","n","t","r","o","l">>, <<"n","o","-","s","t","o","r","e">>>>,
                 <<HAllowOrigin, <<"h","t","t","p","s",":","/","/","o">>>>>>,
   body |-> body]

ScriptCalls ==
  {[response |-> ScriptResponse(status, body), pathname |-> pathname] :
     status \in {200, 404}, body \in NamedBodies,
     pathname \in {<<"/","s","t","a","t","i","c","/","a","p","p",".","j","s">>, <<"/","c","a","l","e","n","d","a","r",".","j","s","o","n">>}}

SanitizeCalls ==
  ScriptCalls \cup
    {[response |-> Respond(200, contentType, body), pathname |-> <<"/","c","a","l","e","n","d","a","r",".","j","s","o","n">>] :
     contentType \in {Html, Json}, body \in PieceBodies(MaxPieces)}
  \cup {[response |-> Respond(status, contentType, body), pathname |-> pathname] :
          status \in {200, 500}, contentType \in {Html, Json, TextPlain, <<"t","e","x","t","/","c","a","l","e","n","d","a","r">>},
          body \in NamedBodies, pathname \in {<<"/">>, <<"/","c","a","l","e","n","d","a","r",".","j","s","o","n">>}}

InitSanitize ==
  /\ \E call \in SanitizeCalls :
       /\ upstreamResp = call.response
       /\ req = [NoRequest EXCEPT !.pathname = call.pathname]
  /\ env = [NoEnv EXCEPT !.USER_EMAILS = UserEmailsSecret]
  /\ pc = "sanitize"
  /\ branch = "none"
  /\ urlsToUse = << >>
  /\ decryptedUrls = << >>
  /\ upstreamReq = NoUpstreamRequest
  /\ resp = NoResponse
  /\ DecodeIdle
  /\ JsonIdle
  /\ MergeIdle

SanitizeFrame ==
  /\ UNCHANGED <<env, req, branch, urlsToUse, decryptedUrls, upstreamReq, upstreamResp>>
  /\ UNCHANGED decodeVars
  /\ UNCHANGED jsonVars
  /\ UNCHANGED mergeVars

\* the hard deny for calendar files
SanitizeDenies ==
  /\ pc = "sanitize"
  /\ IsCalendarType(ContentTypeOf(upstreamResp)) \/ IsCalendarFilePath(req.pathname)
  /\ resp' = sanitizeResponse(upstreamResp, req.pathname, parseUserEmails(env.USER_EMAILS))
  /\ pc' = "denied"
  /\ SanitizeFrame

\* a body that is neither HTML nor JSON is returned as it is
SanitizePasses ==
  /\ pc = "sanitize"
  /\ ~(IsCalendarType(ContentTypeOf(upstreamResp)) \/ IsCalendarFilePath(req.pathname))
  /\ ~IsHtml(ContentTypeOf(upstreamResp))
  /\ ~IsJson(ContentTypeOf(upstreamResp))
  /\ resp' = sanitizeResponse(upstreamResp, req.pathname, parseUserEmails(env.USER_EMAILS))
  /\ pc' = "passed"
  /\ SanitizeFrame

\* an HTML or JSON body is rewritten
SanitizeRewrites ==
  /\ pc = "sanitize"
  /\ ~(IsCalendarType(ContentTypeOf(upstreamResp)) \/ IsCalendarFilePath(req.pathname))
  /\ IsHtml(ContentTypeOf(upstreamResp)) \/ IsJson(ContentTypeOf(upstreamResp))
  /\ resp' = sanitizeResponse(upstreamResp, req.pathname, parseUserEmails(env.USER_EMAILS))
  /\ pc' = "rewritten"
  /\ SanitizeFrame

NextSanitize ==
  \/ SanitizeDenies
  \/ SanitizePasses
  \/ SanitizeRewrites

SpecSanitize == InitSanitize /\ [][NextSanitize]_vars

-----------------------------------------------------------------------------
(* encodeURIComponent, decodeURIComponent, the Cookie header, URL queries *)

HexDigits == <<"0","1","2","3","4","5","6","7","8","9","A","B","C","D","E","F">>

\* a control character other than tab, line feed and carriage return
ControlChar == "<control>"

\* the code of a character below 128
CharCode(c) ==
  IF c \in Range(Ascii) THEN AsciiCode[c]
  ELSE IF c = "\t" THEN 9
  ELSE IF c = "\n" THEN 10
  ELSE IF c = "\r" THEN 13
  ELSE 1

\* the character of a code below 128
CharOfCode(code) ==
  IF code >= 32 /\ code <= 126 THEN Ascii[code - 31]
  ELSE IF code = 9 THEN "\t"
  ELSE IF code = 10 THEN "\n"
  ELSE IF code = 13 THEN "\r"
  ELSE ControlChar

\* the characters encodeURIComponent leaves alone: A-Z a-z 0-9 - _ . ! ~ * ' ( )
IsUnreserved(c) ==
  IsLetter(c) \/ IsDigit(c) \/ c \in {"-", "_", ".", "!", "~", "*", "'", "(", ")"}

PercentByte(code) == <<"%", HexDigits[(code \div 16) + 1], HexDigits[(code % 16) + 1]>>

\* one character of encodeURIComponent: the character, or its UTF-8 bytes as %XX
EncodeChar(c) ==
  IF IsUnreserved(c) THEN <<c>>
  ELSE IF c = ReplacementChar THEN <<"%","E","F","%","B","F","%","B","D">>
  ELSE PercentByte(CharCode(c))

encodeURIComponent(s) == Flatten([i \in 1..Len(s) |-> EncodeChar(s[i])])

IsHexDigit(c) == IsDigit(c) \/ c \in Range(<<"a","b","c","d","e","f","A","B","C","D","E","F">>)

HexValue(c) ==
  IF IsDigit(c) THEN AsciiCode[c] - 48
  ELSE IF c \in Range(<<"A","B","C","D","E","F">>) THEN AsciiCode[c] - 55
  ELSE AsciiCode[c] - 87

\* the byte that the two hex digits at the head of a piece stand for, or -1
PieceByte(piece) ==
  IF Len(piece) >= 2 /\ IsHexDigit(piece[1]) /\ IsHexDigit(piece[2])
    THEN 16 * HexValue(piece[1]) + HexValue(piece[2])
    ELSE -1

\* the bytes of the pieces that follow a %; the first piece follows none
PieceBytes(pieces) ==
  [k \in 1..Len(pieces) |-> IF k = 1 THEN 0 ELSE PieceByte(pieces[k])]

\* the number of bytes of the UTF-8 sequence that a lead byte opens, or 0
SequenceLength(byte) ==
  IF byte >= 194 /\ byte <= 223 THEN 2
  ELSE IF byte >= 224 /\ byte <= 239 THEN 3
  ELSE IF byte >= 240 /\ byte <= 244 THEN 4
  ELSE 0

IsContinuation(byte) == byte >= 128 /\ byte <= 191

\* piece k opens a UTF-8 sequence of n bytes, each %XX next to the other
OpensSequence(pieces, bytes, k, n) ==
  /\ n >= 2
  /\ k + n - 1 <= Len(pieces)
  /\ \A m \in k..(k + n - 2) : Len(pieces[m]) = 2
  /\ \A m \in (k + 1)..(k + n - 1) : IsContinuation(bytes[m])

IsLead(pieces, bytes, k) ==
  k >= 2 /\ OpensSequence(pieces, bytes, k, SequenceLength(bytes[k]))

\* piece k is a continuation byte of a sequence that an earlier piece opens
IsCovered(pieces, bytes, k) ==
  /\ IsContinuation(bytes[k])
  /\ \E j \in (k - 3)..(k - 1) :
       IsLead(pieces, bytes, j) /\ k - j < SequenceLength(bytes[j])

AfterByte(piece) == SubSeq(piece, 3, Len(piece))

\* what piece k decodes to; a character outside ASCII is written ReplacementChar
PieceText(pieces, bytes, k) ==
  IF k = 1 THEN pieces[k]
  ELSE IF bytes[k] < 0 THEN <<"%">> \o pieces[k]
  ELSE IF bytes[k] < 128 THEN <<CharOfCode(bytes[k])>> \o AfterByte(pieces[k])
  ELSE IF IsCovered(pieces, bytes, k) THEN AfterByte(pieces[k])
  ELSE <<ReplacementChar>> \o AfterByte(pieces[k])

DecodedText(pieces, bytes) ==
  Flatten([k \in 1..Len(pieces) |-> PieceText(pieces, bytes, k)])

\* the source throws URIError: a % without two hex digits, bytes that are no UTF-8
Malformed(pieces, bytes) ==
  \E k \in 2..Len(pieces) :
    \/ bytes[k] < 0
    \/ bytes[k] >= 128 /\ ~IsLead(pieces, bytes, k) /\ ~IsCovered(pieces, bytes, k)

DecodePieces(pieces, bytes) ==
  IF Malformed(pieces, bytes) THEN [ok |-> FALSE, value |-> << >>]
  ELSE [ok |-> TRUE, value |-> DecodedText(pieces, bytes)]

\* decodeURIComponent(s): [ok, value], ok being FALSE where the source throws
decodeURIComponent(s) == DecodePieces(Split(s, "%"), PieceBytes(Split(s, "%")))

\* const [key, value] = cookie.trim().split('='): the value is the empty
\* text where the source has undefined (both are falsy)
CookiePair(pieces) == <<pieces[1], IF Len(pieces) >= 2 THEN pieces[2] ELSE << >>>>

\* cookieHeader.split(';').reduce(...): the [key, value] of each piece
CookiePairs(cookieHeader) ==
  [i \in 1..Len(Split(cookieHeader, ";")) |->
     CookiePair(Split(Trim(Split(cookieHeader, ";")[i]), "="))]

\* cookies[name]: the value that the last piece of that key assigned
LastValue(pairs, name) ==
  IF HasEntry(pairs, name)
    THEN pairs[MaxOf({i \in 1..Len(pairs) : pairs[i][1] = name})][2]
    ELSE << >>

CookieName == <<"o","w","c","_","u","r","l","s">>

\* decodeURIComponent(cookies['owc_urls']).split('|'), or nothing when it throws
SplitDecoded(decoded) == IF decoded.ok THEN Split(decoded.value, "|") ELSE << >>

\* the sources of the Cookie header
CookieUrls(cookieHeader) ==
  IF cookieHeader = << >> THEN << >>
  ELSE IF LastValue(CookiePairs(cookieHeader), CookieName) = << >> THEN << >>
  ELSE SplitDecoded(decodeURIComponent(LastValue(CookiePairs(cookieHeader), CookieName)))

\* the characters of a scheme after its first letter
IsSchemeChar(c) == IsLetter(c) \/ IsDigit(c) \/ c \in {"+", "-", "."}

\* the position of the colon that ends the scheme of t, or 0 when t has none
SchemeColon(t) ==
  IF t = << >> THEN 0
  ELSE IF ~IsLetter(t[1]) THEN 0
  ELSE IF FirstNot(t, 1, IsSchemeChar) > Len(t) THEN 0
  ELSE IF t[FirstNot(t, 1, IsSchemeChar)] # ":" THEN 0
  ELSE FirstNot(t, 1, IsSchemeChar)

\* the schemes whose URLs must name a host
SpecialSchemes == {<<"h","t","t","p">>, <<"h","t","t","p","s">>, <<"w","s">>, <<"w","s","s">>, <<"f","t","p">>}

IsSlash(c) == c \in {"/", "\\"}
IsHostPart(c) == c \notin {"/", "\\", "?", "#"}
IsHostForbidden(c) == IsSpace(c) \/ c \in {"<", ">", "^", "|"}

\* the host of a URL of a special scheme begins at position p
HostOk(t, p) ==
  /\ FirstNot(t, p, IsHostPart) > p
  /\ \A k \in p..(FirstNot(t, p, IsHostPart) - 1) : ~IsHostForbidden(t[k])

\* new URL(text) does not throw, t being the text without the white space
\* around it: there is a scheme, and a host where the scheme asks for one
UrlParsesAt(t, colon) ==
  /\ colon > 0
  /\ ToLower(SubSeq(t, 1, colon - 1)) \in SpecialSchemes
       => HostOk(t, FirstNot(t, colon + 1, IsSlash))

UrlParses(text) == UrlParsesAt(Trim(text), SchemeColon(Trim(text)))

IsNotHash(c) == c # "#"
IsNotQuestion(c) == c # "?"
IsNotEquals(c) == c # "="

\* the query string of the URL: between the first `?` and the fragment
QueryOfCut(t) == SubSeq(t, FirstNot(t, 1, IsNotQuestion) + 1, Len(t))
QueryOf(text) == QueryOfCut(SubSeq(Trim(text), 1, FirstNot(Trim(text), 1, IsNotHash) - 1))

PlusToSpace(s) == [i \in 1..Len(s) |-> IF s[i] = "+" THEN " " ELSE s[i]]

\* percent-decoding of a name or a value of a query string: a % that opens no
\* byte stays, bytes that are no UTF-8 become ReplacementChar
FormDecodePieces(pieces) == DecodedText(pieces, PieceBytes(pieces))
FormDecode(s) == FormDecodePieces(Split(PlusToSpace(s), "%"))

\* one name=value piece of a query string
FormPair(piece) ==
  <<FormDecode(SubSeq(piece, 1, FirstNot(piece, 1, IsNotEquals) - 1)),
    FormDecode(SubSeq(piece, FirstNot(piece, 1, IsNotEquals) + 1, Len(piece)))>>

\* url.searchParams of a query string
SearchParams(query) ==
  [i \in 1..Len(FilterNonEmpty(Split(query, "&"))) |->
     FormPair(FilterNonEmpty(Split(query, "&"))[i])]

\* new URL(refererHeader).searchParams.getAll('url'), or nothing when it throws
RefererUrls(refererHeader) ==
  IF refererHeader = << >> THEN << >>
  ELSE IF ~UrlParses(refererHeader) THEN << >>
  ELSE GetAll(SearchParams(QueryOf(refererHeader)), <<"u","r","l">>)

-----------------------------------------------------------------------------
(* The worker that takes its sources from the request: sanitizeResponse *)

\* the content types whose bodies are rewritten
IsRewrittenType(contentType) ==
  \/ Includes(contentType, <<"t","e","x","t","/","h","t","m","l">>)
  \/ Includes(contentType, <<"a","p","p","l","i","c","a","t","i","o","n","/","j","s","o","n">>)
  \/ Includes(contentType, <<"t","e","x","t","/","j","a","v","a","s","c","r","i","p","t">>)
  \/ Includes(contentType, <<"a","p","p","l","i","c","a","t","i","o","n","/","j","a","v","a","s","c","r","i","p","t">>)

\* /%40[^\s"']+/gi at position i: the last position of the match, or 0
EncodedAtAnyEnd(text, i) ==
  IF ~OccursAt(text, <<"%","4","0">>, i) THEN 0
  ELSE IF FirstNot(text, i + 3, IsUrlChar) = i + 3 THEN 0
  ELSE FirstNot(text, i + 3, IsUrlChar) - 1

\* a character of [a-zA-Z0-9._%+-] and of [a-zA-Z0-9.-]
IsLocalChar(c) == IsLetter(c) \/ IsDigit(c) \/ c \in {".", "_", "%", "+", "-"}
IsDomainChar(c) == IsLetter(c) \/ IsDigit(c) \/ c \in {".", "-"}

\* the dots of text[p..last] with a character before and two letters after
TopLevelDots(text, p, last) ==
  {d \in (p + 1)..(last - 2) :
     text[d] = "." /\ IsLetter(text[d + 1]) /\ IsLetter(text[d + 2])}

\* the domain and top level from position p on: the greedy run gives back
\* characters until a dot and two letters follow, the letters then run on
DomainEnd(text, dots) ==
  IF dots = {} THEN 0 ELSE FirstNot(text, MaxOf(dots) + 1, IsLetter) - 1

\* /@[a-zA-Z0-9._%+-]+@[a-zA-Z0-9.-]+\.[a-zA-Z]{2,}/gi with the second @ at
\* position a
AddressFrom(text, i, a) ==
  IF a = i + 1 \/ a > Len(text) THEN 0
  ELSE IF text[a] # "@" THEN 0
  ELSE DomainEnd(text, TopLevelDots(text, a + 1, FirstNot(text, a + 1, IsDomainChar) - 1))

AddressEnd(text, i) ==
  IF text[i] # "@" THEN 0 ELSE AddressFrom(text, i, FirstNot(text, i + 1, IsLocalChar))

HideEncodedAtAny(text) ==
  ReplaceFrom(text, [i \in 1..Len(text) |-> EncodedAtAnyEnd(text, i)], 1)
HideAddresses(text) ==
  ReplaceFrom(text, [i \in 1..Len(text) |-> AddressEnd(text, i)], 1)

\* urlPatterns.forEach(...) over the four patterns
HideEveryPattern(text) ==
  HideAddresses(HideEncodedAtAny(HideGoogleUrls(HideIcsUrls(text))))

SanitizeByType(response, contentType) ==
  IF ~IsRewrittenType(contentType)
    THEN [response EXCEPT !.headers = WithAllowOrigin(response.headers)]
    ELSE [status |-> response.status,
          headers |-> WithAllowOrigin(response.headers),
          body |-> HideEveryPattern(response.body)]

\* sanitizeResponse(response) of the worker that takes its sources from the request
sanitizeResponseOfRequest(response) == SanitizeByType(response, ContentTypeOf(response))

-----------------------------------------------------------------------------
(* The worker that takes its sources from the request: the fetch handler *)

MsgKeyNotConfigured == <<"E","N","C","R","Y","P","T","I","O","N","_","K","E","Y"," ","n","o","t"," ","c","o","n","f","i","g","u","r","e","d">>
HCookie == <<"c","o","o","k","i","e">>
HReferer == <<"r","e","f","e","r","e","r">>
HSetCookie == <<"s","e","t","-","c","o","o","k","i","e">>
CookieAttributes == <<";"," ","P","a","t","h","=","/",";"," ","S","a","m","e","S","i","t","e","=","L","a","x",";"," ","M","a","x","-","A","g","e","=","3","6","0","0">>

\* url.searchParams.getAll('url')
FernetUrls(request) == GetAll(request.query, UrlParam)

\* the sources of an API request: the query, else the cookie, else the Referer
FromReferer(urls, request) ==
  IF urls = << >> THEN RefererUrls(GetEntry(request.headers, HReferer)) ELSE urls

FromCookie(urls, request) ==
  IF urls = << >> THEN CookieUrls(GetEntry(request.headers, HCookie)) ELSE urls

UrlsToUse(request) == FromReferer(FromCookie(FernetUrls(request), request), request)

\* `owc_urls=${encodeURIComponent(fernetUrls.join('|'))}; Path=/; ...`
SetCookieOf(fernetUrls) ==
  CookieName \o <<"=">> \o encodeURIComponent(JoinAll(fernetUrls, <<"|">>)) \o CookieAttributes

\* the local responseHeaders of the main-page branch
MainPageHeaders(response, fernetUrls) ==
  IF fernetUrls # << >>
    THEN SetEntry(WithAllowOrigin(response.headers), HSetCookie, SetCookieOf(fernetUrls))
    ELSE WithAllowOrigin(response.headers)

-----------------------------------------------------------------------------
(* Inputs of the handler *)

PipeSource == <<"h","t","t","p",":","/","/","b","/","c","?","d","a","y","s","=","1","|","2">>

\* lists of sources as a client holds them, tokens still encrypted
SourceLists ==
  {<<FernetScheme \o TokenA>>,
   <<SourceB, FernetScheme \o TokenA>>,
   <<PipeSource>>,
   <<FernetScheme \o TokenCut>>,
   <<ClientFeed>>}

\* the cookie that the handler computes for a list
CookieOf(urls) == CookieName \o <<"=">> \o encodeURIComponent(JoinAll(urls, <<"|">>))

CookieHeaders ==
  {<< >>, <<"t","h","e","m","e","=","d","a","r","k">>, <<"o","w","c","_","u","r","l","s","=">>, <<"o","w","c","_","u","r","l","s","=","%","E","0","%","A","4","%","A">>}
  \cup {CookieOf(urls) : urls \in SourceLists}
  \cup {<<"t","h","e","m","e","=","d","a","r","k",";"," ">> \o CookieOf(urls) \o <<";"," ","l","a","n","g","=","e","n">> : urls \in SourceLists}

RefererHeaders ==
  {<< >>,
   <<"h","t","t","p","s",":","/","/","c","a","l",".","e","x","a","m","p","l","e","/","?","t","a","b","=","1","&","u","r","l","=">> \o encodeURIComponent(ClientUrl) \o <<"#","t","o","p">>,
   <<"/","c","a","l","e","n","d","a","r",".","h","t","m","l","?","u","r","l","=","x">>}

UrlQuery(urls) == [i \in 1..Len(urls) |-> <<UrlParam, urls[i]>>]

Queries ==
  {<< >>, <<<<<<"t","a","b">>, <<"1">>>>>>}
  \cup {UrlQuery(urls) : urls \in SourceLists}
  \cup {<<<<<<"t","a","b">>, <<"1">>>>>> \o UrlQuery(urls) \o <<<<<<"l","a","n","g">>, <<"e","n">>>>>> : urls \in SourceLists}

HeadersOf(cookie, referer) ==
  <<<<HUserAgent, <<"U","A","/","1">>>>, <<<<"h","o","s","t">>, <<"c","a","l",".","e","x","a","m","p","l","e">>>>>>
    \o (IF cookie = << >> THEN << >> ELSE <<<<HCookie, cookie>>>>)
    \o (IF referer = << >> THEN << >> ELSE <<<<HReferer, referer>>>>)

\* the requests: every combination of carriers on the API paths, the query
\* alone or with a cookie on the other paths
RequestsWithSources ==
  {[pathname |-> p, query |-> q, headers |-> HeadersOf(c, r)] :
     p \in {<<"/","s","r","c","d","o","c">>, <<"/","c","a","l","e","n","d","a","r",".","j","s","o","n">>}, q \in Queries,
     c \in CookieHeaders, r \in RefererHeaders}
  \cup {[pathname |-> p, query |-> q, headers |-> HeadersOf(c, << >>)] :
          p \in {<<"/">>, <<"/","a","/","c","a","l","e","n","d","a","r",".","h","t","m","l">>, <<"/","s","t","a","t","i","c","/","a","p","p",".","j","s">>}, q \in Queries,
          c \in {<< >>, CookieOf(<<ClientFeed>>)}}

EnvironmentsOfRequest ==
  {[CALENDAR_URL |-> << >>, ENCRYPTION_KEY |-> SecretText("good"), USER_EMAILS |-> << >>],
   [CALENDAR_URL |-> SourceFeed, ENCRYPTION_KEY |-> SecretText("good"), USER_EMAILS |-> << >>],
   [CALENDAR_URL |-> << >>, ENCRYPTION_KEY |-> << >>, USER_EMAILS |-> << >>]}

\* what the upstream host may answer to a request
AnswersTo(request) ==
  {Respond(200, Html,
           <<"<","h","t","m","l",">","<","h","e","a","d",">","<","/","h","e","a","d",">","<","b","o","d","y",">","<","a"," ","h","r","e","f","=","'">> \o SourcesText(request)
             \o <<"'",">","f","e","e","d","<","/","a",">","<","/","b","o","d","y",">","<","/","h","t","m","l",">">>),
   Respond(500, Html, <<"<","b","o","d","y",">","C","a","n","n","o","t"," ","l","o","a","d"," ">> \o SourcesText(request) \o <<"<","/","b","o","d","y",">">>),
   Respond(200, <<"a","p","p","l","i","c","a","t","i","o","n","/","j","a","v","a","s","c","r","i","p","t">>,
           <<"v","a","r"," ","u"," ","="," ","'","x","%","4","0","b",".","o","r","g"," ","@","m","e","@","x",".","o","r","g"," ">> \o SourcesText(request) \o <<"'",";">>),
   Respond(404, TextPlain, <<"n","o"," ">> \o SourcesText(request))}

-----------------------------------------------------------------------------
(* The handler, from the request to the response *)

InitOfRequest ==
  /\ env \in EnvironmentsOfRequest
  /\ req \in RequestsWithSources
  /\ pc = "start"
  /\ branch = "none"
  /\ urlsToUse = << >>
  /\ decryptedUrls = << >>
  /\ upstreamReq = NoUpstreamRequest
  /\ upstreamResp = NoResponse
  /\ resp = NoResponse
  /\ DecodeIdle
  /\ JsonIdle
  /\ MergeIdle

FrameOfRequest ==
  /\ UNCHANGED <<env, req>>
  /\ UNCHANGED decodeVars
  /\ UNCHANGED jsonVars
  /\ UNCHANGED mergeVars

\* if (!encryptionKey) return 500
KeyNotConfigured ==
  /\ pc = "start"
  /\ env.ENCRYPTION_KEY = << >>
  /\ resp' = PlainResponse(500, MsgKeyNotConfigured)
  /\ pc' = "done"
  /\ branch' = "config"
  /\ UNCHANGED <<urlsToUse, decryptedUrls, upstreamReq, upstreamResp>>
  /\ FrameOfRequest

\* if (isApiEndpoint) { let urlsToUse = fernetUrls; ... cookie ... Referer
ResolveApiSources ==
  /\ pc = "start"
  /\ env.ENCRYPTION_KEY # << >>
  /\ IsApiEndpoint(req.pathname)
  /\ urlsToUse' = UrlsToUse(req)
  /\ branch' = "api"
  /\ pc' = "decrypt"
  /\ UNCHANGED <<decryptedUrls, upstreamReq, upstreamResp, resp>>
  /\ FrameOfRequest

\* if (!hasFernetUrls || !isMainCalendarPage): proxied with its own query string
ProxyDirectly ==
  /\ pc = "start"
  /\ env.ENCRYPTION_KEY # << >>
  /\ ~IsApiEndpoint(req.pathname)
  /\ ~HasFernetUrls(FernetUrls(req)) \/ ~IsMainCalendarPage(req.pathname)
  /\ branch' = "static"
  /\ upstreamReq' = UpstreamRequest(TargetPath(req.pathname), req.query,
                                    ForwardedHeaders(req.headers))
  /\ pc' = "fetching"
  /\ UNCHANGED <<urlsToUse, decryptedUrls, upstreamResp, resp>>
  /\ FrameOfRequest

\* the main page with a token among its sources: the loop runs over fernetUrls
TakeMainPageOfRequest ==
  /\ pc = "start"
  /\ env.ENCRYPTION_KEY # << >>
  /\ ~IsApiEndpoint(req.pathname)
  /\ HasFernetUrls(FernetUrls(req))
  /\ IsMainCalendarPage(req.pathname)
  /\ urlsToUse' = FernetUrls(req)
  /\ branch' = "main"
  /\ pc' = "decrypt"
  /\ UNCHANGED <<decryptedUrls, upstreamReq, upstreamResp, resp>>
  /\ FrameOfRequest

\* for (const urlParam of urlsToUse) { ... }
DecryptSourcesOfRequest ==
  /\ pc = "decrypt"
  /\ AfterDecrypt(DecryptLoop(urlsToUse, env.ENCRYPTION_KEY, 1, << >>))
  /\ UNCHANGED <<branch, urlsToUse, upstreamReq, upstreamResp>>
  /\ FrameOfRequest

\* the fetch of the API branch
SendApiRequestOfRequest ==
  /\ pc = "send"
  /\ branch = "api"
  /\ upstreamReq' = UpstreamRequest(req.pathname, SecretQuery(req.query, decryptedUrls),
                                    ForwardedHeaders(req.headers))
  /\ pc' = "fetching"
  /\ UNCHANGED <<branch, urlsToUse, decryptedUrls, upstreamResp, resp>>
  /\ FrameOfRequest

\* the fetch of the main-page branch
SendMainRequestOfRequest ==
  /\ pc = "send"
  /\ branch = "main"
  /\ upstreamReq' = UpstreamRequest(<<"/","c","a","l","e","n","d","a","r",".","h","t","m","l">>, SecretQuery(req.query, decryptedUrls),
                                    <<<<HUserAgent, UserAgentOf(req.headers)>>>>)
  /\ pc' = "fetching"
  /\ UNCHANGED <<branch, urlsToUse, decryptedUrls, upstreamResp, resp>>
  /\ FrameOfRequest

\* the upstream host answers an API or a proxied request
AnswerSanitized ==
  /\ pc = "fetching"
  /\ branch \in {"api", "static"}
  /\ \E response \in AnswersTo(upstreamReq) :
       /\ upstreamResp' = response
       /\ resp' = sanitizeResponseOfRequest(response)
  /\ pc' = "done"
  /\ UNCHANGED <<branch, urlsToUse, decryptedUrls, upstreamReq>>
  /\ FrameOfRequest

\* the upstream host answers the main page: responseHeaders is built, with
\* the cookie, and the handler returns sanitizeResponse(response.clone())
MainPageAnswerSanitized ==
  /\ pc = "fetching"
  /\ branch = "main"
  /\ \E response \in AnswersTo(upstreamReq) :
       LET responseHeaders == MainPageHeaders(response, FernetUrls(req))
           clonedResponse == response
       IN  /\ upstreamResp' = response
           /\ resp' = sanitizeResponseOfRequest(clonedResponse)
  /\ pc' = "done"
  /\ UNCHANGED <<branch, urlsToUse, decryptedUrls, upstreamReq>>
  /\ FrameOfRequest

\* fetch rejects and the catch block answers
FetchRejected ==
  /\ pc = "fetching"
  /\ \E message \in FetchErrors : resp' = PlainResponse(500, MsgError \o message)
  /\ pc' = "done"
  /\ UNCHANGED <<branch, urlsToUse, decryptedUrls, upstreamReq, upstreamResp>>
  /\ FrameOfRequest

NextOfRequest ==
  \/ KeyNotConfigured
  \/ ResolveApiSources
  \/ ProxyDirectly
  \/ TakeMainPageOfRequest
  \/ DecryptSourcesOfRequest
  \/ SendApiRequestOfRequest
  \/ SendMainRequestOfRequest
  \/ AnswerSanitized
  \/ MainPageAnswerSanitized
  \/ FetchRejected

SpecOfRequest == InitOfRequest /\ [][NextOfRequest]_vars
-----------------------------------------------------------------------------
(* Claims about the Token Codec, checked under SpecDecode *)

DecodeFinished == dPc \in {"returned", "threw"}
DecryptAttempted == \E i \in 1..Len(dSteps) : dSteps[i] = "decrypt"

\* the decoded inputs of the execution
InTokenBytes == base64UrlDecode(dToken).bytes
InSecretBytes == base64UrlDecode(dSecret).bytes

\* the token's tag is the HMAC of the bytes before it under secret bytes 0..15
TagMatches ==
  SubSeq(InTokenBytes, Len(InTokenBytes) - 31, Len(InTokenBytes)) =
    HmacSha256(SubSeq(InSecretBytes, 1, 16), SubSeq(InTokenBytes, 1, Len(InTokenBytes) - 32))

\* C6: the AES-CBC decryption is attempted only after the length check, the
\* version check, the secret-length check and the HMAC verification have all
\* been executed and have succeeded, in this order; no execution reaches the
\* decrypt step with a failed or skipped HMAC verification.
C6_DecryptOnlyAfterChecks ==
  (dPc = "decrypt" \/ DecryptAttempted) =>
    /\ Len(dSteps) >= 5
    /\ SubSeq(dSteps, 1, 5) =
         <<"decodeToken", "checkLength", "checkVersion", "decodeSecret", "verifyHmac">>
    /\ Len(InTokenBytes) >= 57
    /\ InTokenBytes[1] = 128
    /\ base64UrlDecode(dSecret).ok
    /\ Len(InSecretBytes) = 32
    /\ TagMatches

\* C6 witness: a decryption was attempted and returned the text
C6_Witness == DecryptAttempted /\ dPc = "returned"

\* the token was changed, after its tag was computed, in the version,
\* timestamp, IV or ciphertext region
RegionChanged ==
  /\ dOrigin.change = "flip"
  /\ (dOrigin.pos > 0 \/ dOrigin.pos < -32)

\* C7: decode fails and returns no plaintext whenever the decoded token is
\* shorter than 57 bytes, or its first byte is not 0x80, or the secret does
\* not decode to exactly 32 bytes, or the trailing 32-byte tag differs from
\* the HMAC computed over the preceding bytes, or a bit of the version,
\* timestamp, IV or ciphertext region was changed after the tag was computed.
C7_DecodeRejects ==
  (/\ DecodeFinished
   /\ \/ ~base64UrlDecode(dToken).ok
      \/ Len(InTokenBytes) < 57
      \/ InTokenBytes[1] # 128
      \/ ~base64UrlDecode(dSecret).ok
      \/ Len(InSecretBytes) # 32
      \/ ~TagMatches
      \/ RegionChanged)
    => /\ dPc = "threw"
       /\ ~dResult.ok
       /\ dResult.value = << >>
       /\ ~DecryptAttempted

\* C7 witness: a token with one ciphertext bit flipped, and one with one tag
\* bit flipped, were rejected at the HMAC verification
C7_Witness ==
  /\ dPc = "threw"
  /\ dOrigin.change = "flip"
  /\ dOrigin.pos \in {26, -1}
  /\ dResult.error = ErrPrefix \o ErrHmac

\* the token is the reference construction's, unchanged, for the secret given
IsReferenceToken ==
  /\ dOrigin.change = "none"
  /\ dOrigin.version = 128
  /\ dOrigin.secret \in {"good", "goodUnpadded"}

\* C8: decoding the token of the reference construction with the same secret
\* returns exactly the plaintext, whatever the timestamp is.
C8_RoundTrip ==
  (DecodeFinished /\ IsReferenceToken) =>
    /\ dPc = "returned"
    /\ dResult.ok
    /\ dResult.value = Plain(dOrigin.plain)

\* C8 witness: a two-block plaintext under the largest timestamp came back
C8_Witness ==
  /\ dPc = "returned"
  /\ IsReferenceToken
  /\ dOrigin.ts = MaxTimestamp
  /\ dOrigin.plain = 16
  /\ dResult.value = Plain(16)

-----------------------------------------------------------------------------
(* Claims about the handler, checked under Spec *)

Done == pc = "done"
Classified == branch \in {"api", "main", "static"}

\* the `url` parameters of a query
UrlValues(query) == GetAll(query, UrlParam)

\* a pathname that ends in .ics or .ical, in any letter case
EndsInCalendarExtension(pathname) ==
  \/ EndsWith(ToLower(pathname), <<".","i","c","s">>)
  \/ EndsWith(ToLower(pathname), <<".","i","c","a","l">>)

\* C1: with the configuration in place, a request whose pathname ends in .ics
\* or .ical in any letter case is never classified, never causes an upstream
\* fetch, and is answered with the fixed 403 response.
C1_CalendarFilesDenied ==
  (ConfigOk(env) /\ EndsInCalendarExtension(req.pathname)) =>
    /\ ~Classified
    /\ ~upstreamReq.sent
    /\ Done => resp = DenyResponse

\* the header values of a response
HeaderValues(response) == {response.headers[i][2] : i \in 1..Len(response.headers)}

\* C2: the response returned to the client holds, neither in its body nor in
\* a header, the plaintext of a calendar source that the handler resolved.
C2_NoSourceInResponse ==
  Done =>
    \A i \in 1..Len(decryptedUrls) :
      /\ ~Includes(resp.body, decryptedUrls[i])
      /\ \A value \in HeaderValues(resp) : ~Includes(value, decryptedUrls[i])

\* C4: no value of a `url` parameter of the inbound query is a value of a
\* parameter of the upstream request, whatever the classification.
C4_ClientUrlDropped ==
  upstreamReq.sent =>
    \A i \in 1..Len(upstreamReq.query) :
      upstreamReq.query[i][2] \notin Range(UrlValues(req.query))

\* a configured source as the upstream host must receive it
ResolvedSource(source) ==
  IF StartsWith(source, FernetScheme)
    THEN decryptFernetUrl(source, env.ENCRYPTION_KEY).value
    ELSE source

\* the configured sources, in configured order
ConfiguredSources == CalendarUrls(env.CALENDAR_URL)

\* C5: when a MainPage or ApiEndpoint request reaches the upstream fetch, the
\* `url` parameters of the upstream request are the configured sources in
\* configured order, each fernet:// source replaced by its plaintext; the other
\* parameters are those of the inbound query in their order; the host is the
\* fixed host.
C5_UpstreamQuery ==
  (upstreamReq.sent /\ branch \in {"api", "main"}) =>
    /\ UrlValues(upstreamReq.query) =
         [i \in 1..Len(ConfiguredSources) |-> ResolvedSource(ConfiguredSources[i])]
    /\ Without(upstreamReq.query, UrlParam) = Without(req.query, UrlParam)
    /\ upstreamReq.host = UpstreamHost

\* C5 witness: a main-page request with two `url` parameters of its own and
\* two others was sent upstream with the decrypted and the plain source
C5_Witness ==
  /\ upstreamReq.sent
  /\ branch = "main"
  /\ Len(req.query) = 4
  /\ UrlValues(req.query) = <<ClientUrl, ClientFeed>>
  /\ UrlValues(upstreamReq.query) = <<SourceA, SourceB>>
  /\ Len(upstreamReq.query) = 4

\* the pathname tests as the specification words them
MainPagePath(pathname) ==
  \/ pathname = <<"/">>
  \/ pathname = <<"/","c","a","l","e","n","d","a","r",".","h","t","m","l">>
  \/ EndsWith(pathname, <<"/","c","a","l","e","n","d","a","r",".","h","t","m","l">>)

ApiEndpointPath(pathname) ==
  \/ StartsWith(pathname, <<"/","s","r","c","d","o","c">>)
  \/ EndsWith(pathname, <<".","j","s","o","n">>)

\* the handler got past the configuration checks and the calendar-file block
Routed == pc # "start" /\ branch \notin {"config", "denied"}

\* C9 as stated: MainPage exactly for the main-page pathnames, ApiEndpoint
\* exactly for the API pathnames, StaticPassthrough for the others; a
\* main-page pathname is always handled by the main-page branch.
C9_ClassifyAsStated ==
  Routed =>
    /\ branch = "main" <=> MainPagePath(req.pathname)
    /\ branch = "api" <=> ApiEndpointPath(req.pathname)
    /\ branch = "static" <=> (~MainPagePath(req.pathname) /\ ~ApiEndpointPath(req.pathname))

\* C9: every pathname that is routed is handled by exactly one branch: the
\* API branch exactly when it starts with /srcdoc or ends with .json, the
\* main-page branch exactly when it is a main-page pathname and no API
\* pathname, the static passthrough otherwise.
C9_Classify ==
  /\ Routed =>
       /\ branch = "api" <=> ApiEndpointPath(req.pathname)
       /\ branch = "main" <=>
            (MainPagePath(req.pathname) /\ ~ApiEndpointPath(req.pathname))
       /\ branch = "static" <=>
            (~MainPagePath(req.pathname) /\ ~ApiEndpointPath(req.pathname))
  /\ (Routed /\ req.pathname = <<"/">>) => branch = "main"
  /\ (Routed /\ req.pathname = <<"/","c","a","l","e","n","d","a","r",".","j","s","o","n">>) => branch = "api"

\* C9 witness: a pathname that passes both tests was taken by the API branch
C9_Witness ==
  /\ MainPagePath(req.pathname)
  /\ ApiEndpointPath(req.pathname)
  /\ branch = "api"
  /\ upstreamReq.sent
  /\ upstreamReq.path = req.pathname

\* C10: every response the handler returns carries
\* Access-Control-Allow-Origin: *.
C10_AllowOriginAlways ==
  Done => GetEntry(resp.headers, HAllowOrigin) = AnyOrigin

-----------------------------------------------------------------------------
(* Claims about the event processing, checked under SpecJson *)

\* the objects among the elements of an array
ObjectsIn(arr) == {arr.v[i] : i \in {j \in 1..Len(arr.v) : arr.v[j].t = "obj"}}

\* the arrays of events a document holds: the root array, the arrays under
\* the keys of the root object, and the events of each calendar
EventArrays(doc) ==
  IF IsArray(doc) THEN {doc}
  ELSE IF doc.t # "obj" THEN {}
  ELSE {doc.v[k][2] : k \in {j \in 1..Len(doc.v) :
                               IsArray(doc.v[j][2]) /\ doc.v[j][1] # <<"c","a","l","e","n","d","a","r","s">>}}
       \cup {Prop(c, <<"e","v","e","n","t","s">>) :
               c \in {d \in (IF IsArray(Prop(doc, <<"c","a","l","e","n","d","a","r","s">>))
                               THEN ObjectsIn(Prop(doc, <<"c","a","l","e","n","d","a","r","s">>)) ELSE {}) :
                        IsArray(Prop(d, <<"e","v","e","n","t","s">>))}}

EventsOf(doc) == UNION {ObjectsIn(a) : a \in EventArrays(doc)}

\* title, description, location and raw calendar fragment are cleared
Cleared(event) ==
  /\ ~Truthy(Prop(event, <<"t","i","t","l","e">>))
  /\ ~Truthy(Prop(event, <<"s","u","m","m","a","r","y">>))
  /\ ~Truthy(Prop(event, <<"n","a","m","e">>))
  /\ Prop(event, <<"t","e","x","t">>) \in {Undefined, EmptyStr, Str(BusyText)}
  /\ ~Truthy(Prop(event, <<"d","e","s","c","r","i","p","t","i","o","n">>))
  /\ ~Truthy(Prop(event, <<"l","o","c","a","t","i","o","n">>))
  /\ ~Truthy(Prop(event, <<"i","c","a","l">>))

\* C3: in the body returned for a parsed JSON document, every event object
\* that is not PUBLIC is cleared, in whichever array of the document it is.
C3_NonPublicCleared ==
  jsonPc \in {"processed", "kept"} =>
    \A event \in EventsOf(jsonOut) : isPublicEvent(event) \/ Cleared(event)

-----------------------------------------------------------------------------
(* Claims about the sanitizer and the configuration, checked under Spec *)

\* the upstream host has answered
Answered == upstreamResp # NoResponse

\* the content type of the upstream answer names a calendar file
CalendarAnswer ==
  \/ Includes(GetEntry(upstreamResp.headers, HContentType), <<"t","e","x","t","/","c","a","l","e","n","d","a","r">>)
  \/ Includes(GetEntry(upstreamResp.headers, HContentType), <<"a","p","p","l","i","c","a","t","i","o","n","/","i","c","s">>)

NoSources == env.CALENDAR_URL = << >>

\* a configured source is a token and the encryption secret is not configured
NoKeyForToken ==
  /\ env.CALENDAR_URL # << >>
  /\ \E i \in 1..Len(ConfiguredSources) : StartsWith(ConfiguredSources[i], FernetScheme)
  /\ env.ENCRYPTION_KEY = << >>

\* every configured source is plain and the encryption secret is not configured
PlainWithoutKey ==
  /\ env.CALENDAR_URL # << >>
  /\ \A i \in 1..Len(ConfiguredSources) : ~StartsWith(ConfiguredSources[i], FernetScheme)
  /\ env.ENCRYPTION_KEY = << >>

\* the handler went from its start to a 500 response without a fetch and
\* without entering the decryption loop
StoppedWith(message) ==
  /\ pc \in {"start", "done"}
  /\ ~upstreamReq.sent
  /\ decryptedUrls = << >>
  /\ Done => resp = [status |-> 500,
                     headers |-> <<<<HContentType, TextPlain>>>>,
                     body |-> message]

\* C20: with the source list not configured, or with a fernet:// source and
\* no encryption secret, the handler answers 500 text/plain naming the missing
\* item, without an upstream fetch and without a decryption, for every
\* pathname; with plain sources only, a missing encryption secret is no error.
C20_ConfigurationErrors ==
  /\ NoSources => StoppedWith(MsgNoCalendarUrl)
  /\ NoKeyForToken => StoppedWith(MsgNoEncryptionKey)
  /\ PlainWithoutKey => (branch # "config" /\ (pc = "fetching" => upstreamReq.sent))

\* C20 witness: a calendar-file pathname was answered with the 500 response
\* for the missing encryption secret
C20_Witness ==
  /\ Done
  /\ NoKeyForToken
  /\ req.pathname = <<"/","x","/","y",".","i","c","s">>
  /\ resp.status = 500
  /\ resp.body = MsgNoEncryptionKey

-----------------------------------------------------------------------------
(* Claims about the event processor, checked under SpecMerge *)

MergeReturned == mPc = "returned"

VisibilityKeys == {<<"c","l","a","s","s">>, <<"C","L","A","S","S">>, <<"c","l","a","s","s","i","f","i","c","a","t","i","o","n">>, <<"p","r","o","p","e","r","t","i","e","s">>}

\* an event with no visibility field: none of the class properties, and no
\* CLASS in a raw fragment
NoVisibilityField(event) ==
  /\ event.t = "obj"
  /\ \A k \in VisibilityKeys : Prop(event, k) = Undefined
  /\ ~(Prop(event, <<"i","c","a","l">>).t = "str" /\ IncludesCI(Prop(event, <<"i","c","a","l">>).v, <<"C","L","A","S","S">>))

\* `after` is the redaction of `before`
RedactionOf(before, after) ==
  /\ getEventTitle(after) = Str(<<"B","U","S","Y">>)
  /\ getEventDescription(after) = EmptyStr
  /\ \A a \in Range(StartAliases) \cup Range(EndAliases) : Prop(after, a) = Prop(before, a)
  /\ getEventTime(after, "start") = getEventTime(before, "start")
  /\ getEventTime(after, "end") = getEventTime(before, "end")
  /\ getCalendarId(after) = getCalendarId(before)
  /\ Prop(after, <<"_","i","s","N","o","n","P","u","b","l","i","c">>) = Bool(TRUE)

EndMeetsStart(first, second) ==
  /\ normalizeDate(getEventTime(first, "end")).ok
  /\ normalizeDate(getEventTime(first, "end")) = normalizeDate(getEventTime(second, "start"))

\* the first starts earlier than the second
StartsBefore(first, second) ==
  /\ NewDate(getEventTime(first, "start")).ok
  /\ NewDate(getEventTime(second, "start")).ok
  /\ DateMinus(NewDate(getEventTime(first, "start")),
               NewDate(getEventTime(second, "start"))).sign < 0

\* the call was made with two events, neither declined
TwoKept == MergeReturned /\ Len(mEvents) = 2 /\ Len(mFiltered) = 2

\* the call returned one event that spans from the start of a to the end of b
OneSpanning(a, b) ==
  /\ Len(mMerged) = 1
  /\ getEventTime(mMerged[1], "start") = getEventTime(a, "start")
  /\ getEventTime(mMerged[1], "end") = getEventTime(b, "end")

CalendarIds(list) == {getCalendarId(list[i]) : i \in 1..Len(list)}

OfCalendar(list, id) == {i \in 1..Len(list) : getCalendarId(list[i]) = id}

\* C18: two events are merged only if they have the same calendar identifier
\* and the normalized end of one is the normalized start of the other; for
\* every input list each calendar keeps its own output events, so events of
\* different calendars stay separate.
C18_MergeOnlyWithinCalendar ==
  MergeReturned =>
    /\ CalendarIds(mMerged) = CalendarIds(Objects(mHeap, mFiltered))
    /\ \A id \in CalendarIds(mMerged) :
         Cardinality(OfCalendar(mMerged, id))
           <= Cardinality(OfCalendar(Objects(mHeap, mFiltered), id))
    /\ (Len(mFiltered) = 2 /\ Len(mMerged) = 1) =>
         /\ getCalendarId(mHeap[mFiltered[1]]) = getCalendarId(mHeap[mFiltered[2]])
         /\ \/ EndMeetsStart(mHeap[mFiltered[1]], mHeap[mFiltered[2]])
            \/ EndMeetsStart(mHeap[mFiltered[2]], mHeap[mFiltered[1]])

\* C18 witness: an event of calendar `work` that starts where an event of
\* calendar `home` ends was returned apart from it
C18_Witness ==
  /\ MergeReturned
  /\ Len(mFiltered) = 2
  /\ getCalendarId(mHeap[1]) = Str(<<"h","o","m","e">>)
  /\ getCalendarId(mHeap[2]) = Str(<<"w","o","r","k">>)
  /\ EndMeetsStart(mHeap[1], mHeap[2])
  /\ Len(mMerged) = 2

\* the lines of the raw fragment of an event, unfolded
RawLines(event) ==
  IF Prop(event, <<"i","c","a","l">>).t = "str"
    THEN SplitLines(Unfold(Prop(event, <<"i","c","a","l">>).v))
    ELSE << >>

\* an ATTENDEE line with PARTSTAT=DECLINED
DeclinedAttendee(line) ==
  StartsWith(line, <<"A","T","T","E","N","D","E","E">>) /\ IncludesCI(line, <<"P","A","R","T","S","T","A","T","=","D","E","C","L","I","N","E","D">>)

\* the address of an ATTENDEE line in lower case: what follows its last mailto:
LineAddress(line) ==
  LET at == {i \in 1..Len(line) : OccursAtCI(line, <<"m","a","i","l","t","o",":">>, i)}
  IN  IF at = {} THEN << >>
      ELSE ToLower(SubSeq(line, MaxOf(at) + 7, Len(line)))

\* the addresses that declined
DeclinedAddresses(event) ==
  {LineAddress(RawLines(event)[i]) :
     i \in {j \in 1..Len(RawLines(event)) : DeclinedAttendee(RawLines(event)[j])}}

\* the event has no declined-indicator but its ATTENDEE lines
OnlyAttendeeLines(event) ==
  /\ ~DeclinedByCssClass(event)
  /\ ~DeclinedByType(event)
  /\ ~DeclinedByStatus(event)
  /\ ~(Prop(event, <<"i","c","a","l">>).t = "str" /\ StatusCancelled(Prop(event, <<"i","c","a","l">>).v))

ConfiguredEmails == {ToLower(mUserEmails[i]) : i \in 1..Len(mUserEmails)}

Kept(i) == i \in Range(mFiltered)

\* C19: an event with an ATTENDEE line that holds PARTSTAT=DECLINED and a
\* configured address, in any letter case, is declined; an event whose only
\* declined-indicator is an ATTENDEE line with PARTSTAT=DECLINED for an
\* address outside the configured set (the empty set included) is not.
C19_DeclinedByUserOnly ==
  mPc = "filtered" =>
    \A i \in 1..Len(mEvents) :
      /\ (DeclinedAddresses(mHeap[i]) \cap ConfiguredEmails # {}) => ~Kept(i)
      /\ (OnlyAttendeeLines(mHeap[i])
            /\ DeclinedAddresses(mHeap[i]) \cap ConfiguredEmails = {}) => Kept(i)


-----------------------------------------------------------------------------
(* Calendar file URLs in the bodies the sanitizer rewrites *)

\* a character a URL goes on with: no white space and no quote
GoesOn(c) == ~IsSpace(c) /\ c \notin {"\"", "'", ConsoleFilterScript}

\* the length of the scheme http:// or https:// at position i, or 0
SchemeAt(low, i) ==
  IF OccursAt(low, <<"h","t","t","p",":","/","/">>, i) THEN 7
  ELSE IF OccursAt(low, <<"h","t","t","p","s",":","/","/">>, i) THEN 8
  ELSE 0

\* a URL of the form http(s)://....ics begins at position i, the scheme
\* being n characters long: the characters up to some `.ics` go on the URL
IcsUrlAt(text, low, i, n) ==
  /\ n > 0
  /\ \E e \in (i + n + 1)..Len(text) :
       /\ OccursAt(low, <<".","i","c","s">>, e)
       /\ \A k \in (i + n)..(e - 1) : GoesOn(text[k])

IcsUrlIn(text, low) ==
  \E i \in 1..Len(text) : IcsUrlAt(text, low, i, SchemeAt(low, i))

\* the text holds a URL of the form http(s)://....ics, in any letter case
NamesIcsUrl(text) == IcsUrlIn(text, ToLower(text))

Rewritten ==
  /\ pc = "rewritten"
  /\ IsHtml(ContentTypeOf(upstreamResp)) \/ IsJson(ContentTypeOf(upstreamResp))

\* C14: the body returned for a text/html or application/json response holds
\* no URL of the form http(s)://....ics, and where the body of the upstream
\* host held one the returned body holds the placeholder [Calendar URL hidden]
C14_NoIcsUrlSurvives ==
  Rewritten =>
    /\ ~NamesIcsUrl(resp.body)
    /\ NamesIcsUrl(upstreamResp.body) => Includes(resp.body, Placeholder)

C14_Witness ==
  /\ Rewritten
  /\ NamesIcsUrl(upstreamResp.body)
  /\ Includes(upstreamResp.body, <<".","I","C","S">>)
  /\ ~NamesIcsUrl(resp.body)
  /\ Includes(resp.body, Placeholder)

-----------------------------------------------------------------------------
(* The sources of a request: the cookie and the order of the carriers *)

MainPageAnswered ==
  /\ pc = "done"
  /\ branch = "main"
  /\ upstreamResp.status = 200
  /\ HasFernetUrls(FernetUrls(req))

\* C11: the response to a main-page request with a token among its sources,
\* the upstream host having answered, carries the Set-Cookie header
\* owc_urls=<the sources, joined with | and percent-encoded>; Path=/;
\* SameSite=Lax; Max-Age=3600
C11_SetCookieOnMainPage ==
  MainPageAnswered => GetEntry(resp.headers, HSetCookie) = SetCookieOf(FernetUrls(req))

ApiResolved == branch = "api" /\ pc # "start"

\* the Cookie header of the request holds the cookie computed for the list,
\* alone or among other cookies
CarriesCookieOf(urls) ==
  GetEntry(req.headers, HCookie)
    \in {CookieOf(urls), <<"t","h","e","m","e","=","d","a","r","k",";"," ">> \o CookieOf(urls) \o <<";"," ","l","a","n","g","=","e","n">>}

\* C12: an API request without a url parameter that carries the owc_urls
\* cookie computed for a list of sources resolves to the sources of that
\* list, in the same order and number, also among other cookies
C12_CookieRoundTrip ==
  (ApiResolved /\ FernetUrls(req) = << >>) =>
    \A urls \in SourceLists : CarriesCookieOf(urls) => urlsToUse = urls

\* the first list that is not empty, or the empty list
FirstNonEmpty(lists) ==
  IF \A i \in 1..Len(lists) : lists[i] = << >> THEN << >>
  ELSE lists[MinOf({i \in 1..Len(lists) : lists[i] # << >>})]

\* the sources of each carrier, in the stated order
Carriers ==
  <<FernetUrls(req),
    CalendarUrls(env.CALENDAR_URL),
    CookieUrls(GetEntry(req.headers, HCookie)),
    RefererUrls(GetEntry(req.headers, HReferer))>>

\* C13: the sources of an API request are those of the first carrier that is
\* not empty in the order url parameters, persisted configuration value,
\* owc_urls cookie, url parameters of the Referer; never those of two carriers
C13_FirstCarrierWins ==
  ApiResolved => urlsToUse = FirstNonEmpty(Carriers)

-----------------------------------------------------------------------------
(* Failures of the handler *)

\* the configured sources that are tokens
TokenSources ==
  {ConfiguredSources[i] :
     i \in {j \in 1..Len(ConfiguredSources) : StartsWith(ConfiguredSources[j], FernetScheme)}}

TokenOf(source) == SubSeq(source, Len(FernetScheme) + 1, Len(source))

Decoded(source) == decryptFernetUrl(source, env.ENCRYPTION_KEY)

\* a main-page or API request whose configuration holds a token that fails to decode
DecodeFails ==
  /\ branch \in {"api", "main"}
  /\ \E source \in TokenSources : ~Decoded(source).ok

\* the reason of the first failure, as the codec words it
FailureReasons == {Decoded(source).error : source \in {t \in TokenSources : ~Decoded(t).ok}}

\* C21: when a token among the sources fails to decode in a main-page or API
\* request, no upstream fetch is issued and the response is 500 text/plain,
\* its body carrying the reason of the failure and holding neither a token
\* nor the plaintext of a source, those decrypted earlier included
C21_DecodeFailureIsTerminal ==
  DecodeFails =>
    /\ ~upstreamReq.sent
    /\ upstreamResp = NoResponse
    /\ Done =>
         /\ resp.status = 500
         /\ GetEntry(resp.headers, HContentType) = TextPlain
         /\ \E reason \in FailureReasons : EndsWith(resp.body, reason)
         /\ \A source \in TokenSources :
              /\ ~Includes(resp.body, TokenOf(source))
              /\ Decoded(source).ok => ~Includes(resp.body, Decoded(source).value)
         /\ \A i \in 1..Len(decryptedUrls) : ~Includes(resp.body, decryptedUrls[i])

\* C21 witness: the third source failed after a plain source and a token were
\* resolved, and the 500 response was returned without a fetch
C21_Witness ==
  /\ DecodeFails
  /\ Done
  /\ branch = "main"
  /\ Len(decryptedUrls) = 2
  /\ decryptedUrls[2] = SourceA
  /\ resp.status = 500
  /\ ~upstreamReq.sent

\* the fetch was issued and rejected
FetchFailed == Done /\ upstreamReq.sent /\ upstreamResp = NoResponse

\* C22: every request ends with one response, after which the handler takes
\* no step; a fetch that rejects is answered 500 text/plain with the message
\* of the error; no fetch is issued once one was issued
C22_OneResponseNoRetry ==
  /\ <>Done
  /\ [](Done => resp # NoResponse)
  /\ [][~Done]_vars
  /\ [][pc' = "fetching" => ~upstreamReq.sent]_vars
  /\ [][upstreamReq.sent => upstreamReq' = upstreamReq]_vars
  /\ [](FetchFailed =>
          /\ resp.status = 500
          /\ GetEntry(resp.headers, HContentType) = TextPlain
          /\ \E message \in FetchErrors : resp.body = MsgError \o message)

\* C22 witness: the fetch of an API request rejected and the 500 response
\* with the message was returned
C22_Witness ==
  /\ FetchFailed
  /\ branch = "api"
  /\ resp = PlainResponse(500, MsgError \o <<"N","e","t","w","o","r","k"," ","c","o","n","n","e","c","t","i","o","n"," ","l","o","s","t",".">>)

-----------------------------------------------------------------------------
(* Visibility, declined events and merged runs, over the stages of the merge *)

\* the text values among a set of values, in upper case
TextsOf(values) == {ToUpper(v.v) : v \in {w \in values : w.t = "str"}}

\* the class values that the fields of an event declare
FieldClasses(event) ==
  TextsOf({Prop(event, <<"c","l","a","s","s">>), Prop(event, <<"C","L","A","S","S">>), Prop(event, <<"c","l","a","s","s","i","f","i","c","a","t","i","o","n">>),
           Prop(Prop(event, <<"p","r","o","p","e","r","t","i","e","s">>), <<"C","L","A","S","S">>),
           Prop(Prop(event, <<"p","r","o","p","e","r","t","i","e","s">>), <<"c","l","a","s","s">>),
           Prop(Prop(Prop(event, <<"p","r","o","p","e","r","t","i","e","s">>), <<"C","L","A","S","S">>), <<"v","a","l","u","e">>),
           Prop(Prop(Prop(event, <<"p","r","o","p","e","r","t","i","e","s">>), <<"c","l","a","s","s">>), <<"v","a","l","u","e">>),
           Prop(Prop(event, <<"i","c","a","l">>), <<"C","L","A","S","S">>), Prop(Prop(event, <<"i","c","a","l">>), <<"c","l","a","s","s">>)})

\* a line of the raw fragment that is the CLASS property
IsClassLine(line) ==
  /\ Len(line) > 5
  /\ ToUpper(SubSeq(line, 1, 5)) = <<"C","L","A","S","S">>
  /\ line[6] \in {":", ";"}

IsNotColon(c) == c # ":"

\* the value of a property line: what follows its first colon
LineValue(line) == Trim(SubSeq(line, FirstNot(line, 1, IsNotColon) + 1, Len(line)))

\* the class values that the CLASS lines of the raw fragment declare
RawClasses(event) ==
  {ToUpper(LineValue(RawLines(event)[i])) :
     i \in {j \in 1..Len(RawLines(event)) : IsClassLine(RawLines(event)[j])}}

DeclaredClasses(event) == FieldClasses(event) \cup RawClasses(event)

\* C23: an event is passed through unredacted only if its class is PUBLIC in
\* any letter case; an event whose fields and raw fragment declare another
\* class, or no CLASS property at all, is redacted
C23_PublicOnlyIfDeclared ==
  mPc = "sanitized" =>
    \A i \in 1..Len(mFiltered) :
      ClassPublic \notin DeclaredClasses(mHeap[mFiltered[i]]) =>
        RedactionOf(mHeap[mFiltered[i]], mHeap[mSanitized[i]])

\* an event with a start and an end
Timed(event) ==
  Truthy(getEventTime(event, "start")) /\ Truthy(getEventTime(event, "end"))

\* the events that were grouped, after the redaction
Grouped == Objects(mHeap, mSanitized)

\* the calendar groups of the call
RunKeys == Range(CalendarKeys(Grouped))

\* the events of one calendar in the order in which the merge loop reads them
RunGroup(id) == SortByStart(CalendarGroup(Grouped, id))

\* the returned events of one calendar, in output order
OutputOf(id) == SelectSeq(mMerged, LAMBDA m : CalendarKey(m) = id)

\* the event at position i goes on the run of the event before it
Joins(group, i) ==
  /\ i > 1
  /\ Timed(group[i - 1])
  /\ Timed(group[i])
  /\ EndMeetsStart(group[i - 1], group[i])

\* the positions at which a run begins, in their order
Heads(group) == SelectSeq([i \in 1..Len(group) |-> i], LAMBDA i : ~Joins(group, i))

\* the position at which the r-th run ends
LastOf(group, heads, r) == IF r < Len(heads) THEN heads[r + 1] - 1 ELSE Len(group)

\* the events of the r-th run
RunOf(group, heads, r) == SubSeq(group, heads[r], LastOf(group, heads, r))

\* the event is marked redacted
MarkedRedacted(event) == Prop(event, <<"_","i","s","N","o","n","P","u","b","l","i","c">>) = Bool(TRUE)

\* the texts of the properties of an event
TextsIn(event) == {event.v[p][2].v : p \in {q \in 1..Len(event.v) : event.v[q][2].t = "str"}}

\* the title and the description of an event, when not empty
OwnTexts(event) ==
  {JsString(t) : t \in {getEventTitle(event), getEventDescription(event)} \ {EmptyStr}}

\* the returned event shows nothing but its times
FullyRedacted(merged) ==
  /\ Prop(merged, <<"t","e","x","t">>) = Str(BusyText)
  /\ getEventTitle(merged) = Str(BusyText)
  /\ Prop(merged, <<"t","i","t","l","e">>) = EmptyStr
  /\ Prop(merged, <<"s","u","m","m","a","r","y">>) = EmptyStr
  /\ Prop(merged, <<"n","a","m","e">>) = EmptyStr
  /\ Prop(merged, <<"d","e","s","c","r","i","p","t","i","o","n">>) = EmptyStr
  /\ Prop(merged, <<"d","e","s","c">>) = EmptyStr
  /\ Prop(merged, <<"i","c","a","l">>) = EmptyStr
  /\ MarkedRedacted(merged)

\* the run was merged, with a redacted event in it
RedactedRun(run) ==
  /\ Len(run) > 1
  /\ \E k \in 1..Len(run) : MarkedRedacted(run[k])

\* the returned event of a run with a redacted event holds nothing of the
\* events given
RunRedacted(run, merged, given) ==
  RedactedRun(run) =>
    /\ FullyRedacted(merged)
    /\ \A k \in 1..Len(given) :
         \A own \in OwnTexts(given[k]) : \A text \in TextsIn(merged) : ~Includes(text, own)

\* the same for every run of a calendar group
RunsRedacted(group, heads, output, given) ==
  /\ Len(output) = Len(heads)
  /\ \A r \in 1..Len(heads) : RunRedacted(RunOf(group, heads, r), output[r], given)

GroupRedacted(group, output, given) == RunsRedacted(group, Heads(group), output, given)

\* C24: for every run of merged events with at least one redacted event, at
\* whichever position, the returned event is fully redacted: its display
\* title is "BUSY", its title, description and raw fragment are empty, it is
\* marked redacted, and no text of it holds the title or the description of
\* an event of the run.
C24_RedactedRunStaysRedacted ==
  MergeReturned =>
    \A id \in RunKeys : GroupRedacted(RunGroup(id), OutputOf(id), Objects(mHeap, mFiltered))

\* C24 witness: a run of three events was returned as one redacted event,
\* the redacted event of the run being the first, the middle or the last
C24_Witness ==
  /\ MergeReturned
  /\ Len(mFiltered) = 3
  /\ Len(mMerged) = 1
  /\ \E h \in 1..3 :
       /\ mHeap[h] \in {EvGym, EvDoctor}
       /\ \A k \in (1..3) \ {h} : isPublicEvent(mHeap[k]) /\ OwnTexts(mHeap[k]) # {}
  /\ MarkedRedacted(mMerged[1])

\* the titles of the events of a run, in the order of the run
RunTitles(run) ==
  SelectSeq([k \in 1..Len(run) |-> JsString(getEventTitle(run[k]))], NonEmpty)

\* the descriptions of the events of a run that are not empty
RunDescriptions(run) ==
  SelectSeq([k \in 1..Len(run) |-> JsString(getEventDescription(run[k]))], NonEmpty)

\* the run was merged and none of its events is redacted
PublicRun(run) ==
  /\ Len(run) > 1
  /\ \A k \in 1..Len(run) : ~MarkedRedacted(run[k]) /\ isPublicEvent(run[k])

\* the returned event of a merged run of PUBLIC events
MergedAsPublic(merged, run) ==
  /\ getEventTitle(merged) = Str(Join(RunTitles(run), <<" ","+"," ">>))
  /\ \A k \in {<<"t","i","t","l","e">>, <<"s","u","m","m","a","r","y">>, <<"n","a","m","e">>} :
       Has(merged, k) => Prop(merged, k) = getEventTitle(merged)
  /\ getEventDescription(merged) = Str(Join(RunDescriptions(run), <<"\n","\n">>))
  /\ getEventTime(merged, "end") = getEventTime(run[Len(run)], "end")
  /\ \A a \in Range(EndAliases) :
       Has(merged, a) => Prop(merged, a) = getEventTime(run[Len(run)], "end")

RunJoined(run, merged) == PublicRun(run) => MergedAsPublic(merged, run)

\* the same for every run of a calendar group
RunsJoined(group, heads, output) ==
  /\ Len(output) = Len(heads)
  /\ \A r \in 1..Len(heads) : RunJoined(RunOf(group, heads, r), output[r])

GroupJoined(group, output) == RunsJoined(group, Heads(group), output)

\* C25: for every merged run of PUBLIC events the title of the returned event
\* is the titles of the run joined with " + " in start order, its description
\* is the non-empty descriptions joined with a blank line, and its end is the
\* end of the last event of the run under every end alias that it holds.
C25_PublicRunJoined ==
  MergeReturned => \A id \in RunKeys : GroupJoined(RunGroup(id), OutputOf(id))

\* C25 witness: Demo, Standup and Review were given in this order and
\* returned as one event with the three titles, the two descriptions and the
\* end of Demo under the three end aliases of Standup
C25_Witness ==
  /\ MergeReturned
  /\ mHeap = <<EvDemo, EvStandup, EvReview>>
  /\ Len(mMerged) = 1
  /\ getEventTitle(mMerged[1]) = Str(<<"S","t","a","n","d","u","p"," ","+"," ","R","e","v","i","e","w"," ","+"," ","D","e","m","o">>)
  /\ getEventDescription(mMerged[1]) = Str(<<"n","o","t","e","s","\n","\n","s","l","i","d","e","s">>)
  /\ Prop(mMerged[1], <<"e","n","d","T","i","m","e">>) = Str(T1200)
  /\ Prop(mMerged[1], <<"d","t","e","n","d">>) = Str(T1200)
  /\ Prop(mMerged[1], <<"d","a","t","e","_","e","n","d">>) = Str(T1200)

\* the user declined the event: an ATTENDEE line with PARTSTAT=DECLINED holds
\* a configured address
UserDeclined(event) == DeclinedAddresses(event) \cap ConfiguredEmails # {}

\* C26: an event that the user declined is in no stage of the output: it is
\* removed by the filter, which reads the events of the call before any
\* redaction was made; the redaction and the merge work on the events kept,
\* so that a declined event that is not PUBLIC is not returned as BUSY and
\* is merged into no neighbour: what is returned is the redaction and the
\* merge of the events kept by the filter, which holds no declined event.
C26_DeclinedNeverReturned ==
  /\ [](mPc = "filtered" =>
          /\ \A i \in 1..Len(mEvents) : UserDeclined(mHeap[i]) => ~Kept(i)
          /\ Len(mHeap) = Len(mEvents)
          /\ mSanitized = << >>)
  /\ [](mPc \in {"sanitized", "returned"} =>
          /\ Len(mSanitized) = Len(mFiltered)
          /\ \A i \in 1..Len(mEvents) : mHeap[i].t = "obj" => ~MarkedRedacted(mHeap[i]))
  /\ [](MergeReturned /\ mEvents # << >> =>
          /\ mMerged = GroupAndMerge(SanitizeAll(Objects(mHeap, mFiltered)))
          /\ Len(mMerged) <= Len(mFiltered)
          /\ \A i \in 1..Len(mEvents) :
               ~Kept(i) =>
                 \A k \in 1..Len(mMerged) :
                   \A own \in OwnTexts(mHeap[i]) : \A text \in TextsIn(mMerged[k]) :
                     ~Includes(text, own))
  /\ [][mPc # "call" => mFiltered' = mFiltered]_vars
  /\ [][mPc' = "sanitized" => mPc = "filtered"]_vars
  /\ [][mPc' = "returned" /\ mEvents # << >> => mPc = "sanitized"]_vars

\* C26 witness: Away, declined and PRIVATE, was given between Lunch and Demo,
\* and Lunch and Demo were returned as they are, apart from each other
C26_Witness ==
  /\ MergeReturned
  /\ Len(mEvents) = 3
  /\ mHeap[1] = EvLunch
  /\ mHeap[2] = EvAway
  /\ mHeap[3] = EvDemo
  /\ UserDeclined(mHeap[2])
  /\ ~isPublicEvent(mHeap[2])
  /\ mMerged = <<EvLunch, EvDemo>>

-----------------------------------------------------------------------------
(* Responses of the upstream host that sanitizeResponse does not rewrite *)

\* the names of the headers of a response
HeaderNames(response) == {response.headers[i][1] : i \in 1..Len(response.headers)}

\* the values of a header of a response, in their order
ValuesOf(response, name) == GetAll(response.headers, name)

\* the type of the response is neither HTML nor JSON, and no calendar file is
\* asked for or answered
OtherType ==
  /\ ~IsHtml(ContentTypeOf(upstreamResp))
  /\ ~IsJson(ContentTypeOf(upstreamResp))
  /\ ~IsCalendarType(ContentTypeOf(upstreamResp))
  /\ ~IsCalendarFilePath(req.pathname)

\* C27: a response of the upstream host whose content type is neither
\* text/html nor application/json, and that is no calendar file, is returned
\* with its body, its status and its headers as they are, but for the header
\* Access-Control-Allow-Origin, which is set to *.
C27_OtherTypesPassThrough ==
  (pc \in {"denied", "passed", "rewritten"} /\ OtherType) =>
    /\ pc = "passed"
    /\ resp.status = upstreamResp.status
    /\ resp.body = upstreamResp.body
    /\ ValuesOf(resp, HAllowOrigin) = <<AnyOrigin>>
    /\ HeaderNames(resp) = HeaderNames(upstreamResp) \cup {HAllowOrigin}
    /\ \A name \in HeaderNames(upstreamResp) \ {HAllowOrigin} :
         ValuesOf(resp, name) = ValuesOf(upstreamResp, name)

\* C27 witness: a script answered with status 404, with a cache header and an
\* allowed origin of its own, that names a calendar file, was passed through
C27_Witness ==
  /\ pc = "passed"
  /\ OtherType
  /\ upstreamResp.status = 404
  /\ ContentTypeOf(upstreamResp) = <<"a","p","p","l","i","c","a","t","i","o","n","/","j","a","v","a","s","c","r","i","p","t">>
  /\ ValuesOf(upstreamResp, HAllowOrigin) = <<<<"h","t","t","p","s",":","/","/","o">>>>
  /\ ValuesOf(upstreamResp, <<"c","a","c","h","e","-","c","o","n","t","r","o","l">>) # << >>
  /\ NamesIcsUrl(upstreamResp.body)
  /\ resp.body = upstreamResp.body

\* the characters with which a JSON text may begin
JsonStarts == {"{", "[", "\"", "-", "t", "f", "n"} \cup Range(<<"0","1","2","3","4","5","6","7","8","9">>)

\* the body is no JSON text: it is empty or blank, it begins with a character
\* that begins no JSON value, or it is a document cut off before its end
Unparseable(body) ==
  \/ \A i \in 1..Len(body) : IsSpace(body[i])
  \/ body[FirstNot(body, 1, IsSpace)] \notin JsonStarts
  \/ body = CutDoc

\* sanitizeResponse was called for an application/json response to a request
\* for an events endpoint, with a body that cannot be parsed
UnparseableEvents ==
  /\ pc \in {"denied", "passed", "rewritten"}
  /\ IsJson(ContentTypeOf(upstreamResp))
  /\ ~IsCalendarType(ContentTypeOf(upstreamResp))
  /\ IsCalendarEventsEndpoint(req.pathname)
  /\ Unparseable(upstreamResp.body)

\* C28: for an application/json response on an events endpoint whose body
\* cannot be parsed, the response returned has the status of the upstream
\* host and the body of the upstream host with the URL patterns replaced and
\* nothing else done to it; no event is processed and no 500 is made.
C28_UnparseableJsonKept ==
  UnparseableEvents =>
    /\ pc = "rewritten"
    /\ resp.status = upstreamResp.status
    /\ resp.body = HideCalendarUrls(upstreamResp.body)
    /\ ~NamesIcsUrl(upstreamResp.body) /\ ~Includes(upstreamResp.body, <<"%","4","0">>)
         => resp.body = upstreamResp.body
    /\ ~NamesIcsUrl(resp.body)
    /\ ValuesOf(resp, HContentType) = ValuesOf(upstreamResp, HContentType)

\* C28 witness: the cut document, answered with status 200, was returned
\* with status 200 and the address of the calendar file in it replaced
C28_Witness ==
  /\ UnparseableEvents
  /\ upstreamResp.body = CutDoc
  /\ upstreamResp.status = 200
  /\ resp.status = 200
  /\ resp.body # upstreamResp.body
  /\ Len(resp.body) > 0

-----------------------------------------------------------------------------
(* Maximal runs *)

\* the starts of the events of a group, as dates
StartDates(group) ==
  SubSeq([i \in 1..Len(group) |-> NewDate(getEventTime(group[i], "start"))], 1, Len(group))

\* the date a is earlier than the date b
Earlier(a, b) == DateMinus(a, b).sign < 0

\* every event of the group has a start and an end, and no two of them start
\* at the same instant
DistinctStarts(group, dates) ==
  /\ \A i \in 1..Len(group) : Timed(group[i]) /\ dates[i].ok
  /\ \A i, j \in 1..Len(group) :
       i # j => Earlier(dates[i], dates[j]) \/ Earlier(dates[j], dates[i])

\* a group of events with distinct starts, by start
ByStart(group, dates) ==
  SubSeq([r \in 1..Len(group) |->
            group[CHOOSE i \in 1..Len(group) :
                    Cardinality({j \in 1..Len(group) : Earlier(dates[j], dates[i])}) = r - 1]],
         1, Len(group))

\* the returned event goes from the start of the first to the end of the last
Spans(merged, first, last) ==
  /\ getEventTime(merged, "start") = getEventTime(first, "start")
  /\ getEventTime(merged, "end") = getEventTime(last, "end")

\* no returned event of the calendar ends where the next one starts
NoneMeetsNext(output) ==
  \A k \in 1..(Len(output) - 1) : ~EndMeetsStart(output[k], output[k + 1])

\* the same for the returned events that have a start and an end
NoTimedMeetsNext(output) ==
  \A k \in 1..(Len(output) - 1) :
    (Timed(output[k]) /\ Timed(output[k + 1])) => ~EndMeetsStart(output[k], output[k + 1])

\* one returned event for every run, from the start of its first event to the
\* end of its last
RunsSpanned(sorted, heads, output) ==
  /\ Len(output) = Len(heads)
  /\ \A r \in 1..Len(heads) :
       Spans(output[r], sorted[heads[r]], sorted[LastOf(sorted, heads, r)])

SortedSpanned(sorted, output) == RunsSpanned(sorted, Heads(sorted), output)

\* the output of a group of events that start at these dates
DatedSpanned(group, dates, output) ==
  DistinctStarts(group, dates) => SortedSpanned(ByStart(group, dates), output)

\* the output of a group of events
GroupSpanned(group, output) ==
  /\ NoTimedMeetsNext(output)
  /\ DatedSpanned(group, StartDates(group), output)

\* the group is a chain of three events, each ending where another starts
IsChain(group, a, b, c) ==
  /\ Len(group) = 3
  /\ {a, b, c} = 1..3
  /\ \A i \in 1..3 : Timed(group[i])
  /\ EndMeetsStart(group[a], group[b])
  /\ EndMeetsStart(group[b], group[c])

\* a chain of three events is returned as one
ChainAsOne(group, output) ==
  \A a, b, c \in 1..3 :
    IsChain(group, a, b, c) => Len(output) = 1 /\ Spans(output[1], group[a], group[c])

\* C29 as stated: in the output of each calendar group no event's normalized
\* end is the normalized start of the next, and a chain A, B, C is returned
\* as one event from the start of A to the end of C.
C29_MaximalRunsAsStated ==
  MergeReturned =>
    \A id \in RunKeys :
      /\ NoneMeetsNext(OutputOf(id))
      /\ ChainAsOne(CalendarGroup(Grouped, id), OutputOf(id))

\* C29: in the output of each calendar group no event that has a start and an
\* end ends where the next one, if it has both, starts; and for a group of
\* events that all have a start and an end and start at distinct instants the
\* output is one event for every maximal run of the group taken by start,
\* from the start of the first event of the run to the end of its last: a
\* chain A, B, C that starts at three instants is returned as one event.
C29_MaximalRuns ==
  MergeReturned => \A id \in RunKeys : GroupSpanned(CalendarGroup(Grouped, id), OutputOf(id))

\* C29 witness: the chain Gym, Review, Demo was given from its last event to
\* its first and returned as one event from 09:00 to 12:00
C29_Witness ==
  /\ MergeReturned
  /\ Len(mEvents) = 3
  /\ mHeap[1] = EvDemo
  /\ mHeap[2] = EvReview
  /\ mHeap[3] = EvGym
  /\ IsChain(CalendarGroup(Grouped, <<"w","o","r","k">>), 3, 2, 1)
  /\ Len(mMerged) = 1
  /\ Spans(mMerged[1], EvGym, EvDemo)

-----------------------------------------------------------------------------
(* Busy time *)

\* the date a is not later than the date b
NotAfter(a, b) == a.ok /\ b.ok /\ DateMinus(a, b).sign <= 0

\* the calendar and the interval of an event
IntervalOf(event) ==
  [key |-> CalendarKey(event),
   timed |-> Timed(event),
   start |-> NewDate(getEventTime(event, "start")),
   end |-> NewDate(getEventTime(event, "end"))]

IntervalsOf(list) == SubSeq([i \in 1..Len(list) |-> IntervalOf(list[i])], 1, Len(list))

\* the interval of an event lies in the interval of a returned event of the
\* same calendar
Contains(merged, event) ==
  /\ merged.key = event.key
  /\ merged.timed
  /\ NotAfter(merged.start, event.start)
  /\ NotAfter(event.end, merged.end)

\* the returned intervals in which the interval of the event lies
Containing(output, event) == {k \in 1..Len(output) : Contains(output[k], event)}

\* the times of every event kept are in order
TimesInOrder(kept) == \A i \in 1..Len(kept) : kept[i].timed => NotAfter(kept[i].start, kept[i].end)

\* every event kept that has a start and an end lies in the number of
\* returned events that the test allows
EachContained(kept, output, Allowed(_)) ==
  \A i \in 1..Len(kept) : kept[i].timed => Allowed(Cardinality(Containing(output, kept[i])))

IsOne(n) == n = 1

IsPositive(n) == n > 0

\* the positions of a list that hold the event
Holding(list, event) == {k \in 1..Len(list) : list[k] = event}

\* an event without a start or an end is returned as it is, as often as it
\* was given
UntimedAsGiven ==
  \A i \in 1..Len(Grouped) :
    ~Timed(Grouped[i]) =>
      Cardinality(Holding(mMerged, Grouped[i])) = Cardinality(Holding(Grouped, Grouped[i]))

\* C30 as stated: for inputs whose events start no later than they end, the
\* interval of every event that was not declined lies in exactly one returned
\* event of its calendar, no more events are returned than were not declined,
\* and an event without a start or an end is returned once, unmerged.
C30_BusyTimeAsStated ==
  (MergeReturned /\ TimesInOrder(IntervalsOf(Grouped))) =>
    /\ EachContained(IntervalsOf(Grouped), IntervalsOf(mMerged), IsOne)
    /\ Len(mMerged) <= Len(mFiltered)
    /\ UntimedAsGiven

\* C30: for inputs whose events start no later than they end, the interval of
\* every event that was not declined lies in at least one returned event of
\* its calendar, no more events are returned than were not declined, and an
\* event without a start or an end is returned as it is, once for each time
\* it was given.
C30_NoBusyTimeLost ==
  (MergeReturned /\ TimesInOrder(IntervalsOf(Grouped))) =>
    /\ EachContained(IntervalsOf(Grouped), IntervalsOf(mMerged), IsPositive)
    /\ Len(mMerged) <= Len(mFiltered)
    /\ UntimedAsGiven

\* C30 witness: Due, Review and Lunch were given; Lunch and Review lie in the
\* one event from 09:00 to 11:00, and Due, which has no start, is returned as
\* it is
C30_Witness ==
  /\ MergeReturned
  /\ Len(mEvents) = 3
  /\ mHeap[1] = EvDue
  /\ mHeap[2] = EvReview
  /\ mHeap[3] = EvLunch
  /\ TimesInOrder(IntervalsOf(Grouped))
  /\ Len(mMerged) = 2
  /\ Containing(IntervalsOf(mMerged), IntervalOf(EvLunch))
       = Containing(IntervalsOf(mMerged), IntervalOf(EvReview))
  /\ Cardinality(Containing(IntervalsOf(mMerged), IntervalOf(EvLunch))) = 1
  /\ Holding(mMerged, EvDue) # {}
=============================================================================
